---- MODULE Spec2Model ----
(***************************************************************************)
(* Meal-plan generation of the dietitian service: the preference/allergy   *)
(* filter, the meal scorer, the daily and the weekly plan generator of     *)
(* services/recommendation_engine.py, and the plan part of the predict     *)
(* endpoint of api/train.py.                                               *)
(*                                                                         *)
(* Units.  A meal's calories/protein/carbs/fat are held in quarters of a   *)
(* unit (2001 is 500.25), so that values with two decimals occur and every *)
(* sum is exact in binary floating point.  Values rounded by round(x, 1)   *)
(* are held in tenths (5002 is 500.2).  Scores are exact rationals over a  *)
(* common denominator.  Text is a sequence of one-character strings, so    *)
(* that lower() and substring tests are computed, not assumed.             *)
(***************************************************************************)
EXTENDS Integers, Sequences, FiniteSets, TLC

\* Largest number of meals in a meal pool handed to the generators.
MaxMeals == 3

\* for day_offset in range(7)
Days == 7

\* Python None, for attributes whose other values are strings.
None == "None"

\* Python None, for the id attribute (database ids start at 1).
NoId == 0

MealTypes == <<"breakfast", "lunch", "dinner", "snack">>

MealTypeSet == {"breakfast", "lunch", "dinner", "snack"}

\* A table whose snack weight is 0.10.
Per_SnackTenth == [breakfast |-> 25, lunch |-> 35, dinner |-> 35, snack |-> 10]

\* per = {'breakfast': 0.25, 'lunch': 0.35, 'dinner': 0.35, 'snack': 0.05}, in hundredths
Per == [breakfast |-> 25, lunch |-> 35, dinner |-> 35, snack |-> 5]

-----------------------------------------------------------------------------
(* Text *)

UpperChars == <<"A","B","C","D","E","F","G","H","I","J","K","L","M",
                "N","O","P","Q","R","S","T","U","V","W","X","Y","Z">>

LowerChars == <<"a","b","c","d","e","f","g","h","i","j","k","l","m",
                "n","o","p","q","r","s","t","u","v","w","x","y","z">>

LowerChar(c) ==
    IF \E i \in 1..Len(UpperChars) : UpperChars[i] = c
    THEN LowerChars[CHOOSE i \in 1..Len(UpperChars) : UpperChars[i] = c]
    ELSE c

\* str.lower()
Lower(s) == [i \in 1..Len(s) |-> LowerChar(s[i])]

\* [str(t).lower() for t in xs]
LowerAll(xs) == [i \in 1..Len(xs) |-> Lower(xs[i])]

\* x in xs, for a list (or a generator) xs: membership by equality
InSeq(x, xs) == \E i \in 1..Len(xs) : xs[i] = x

\* a in s, for two strings: a occurs as a contiguous substring of s
IsSubstring(a, s) ==
    \E i \in 0..(Len(s) - Len(a)) : SubSeq(s, i + 1, i + Len(a)) = a

s_vegan == <<"v","e","g","a","n">>

s_Vegan == <<"V","e","g","a","n">>

s_keto == <<"k","e","t","o">>

s_none == <<"n","o","n","e">>

s_high_protein == <<"h","i","g","h","-","p","r","o","t","e","i","n">>

s_nut == <<"n","u","t">>

s_Nut == <<"N","u","t">>

s_peanut == <<"P","e","a","n","u","t">>

s_oats == <<"o","a","t","s">>

s_rice == <<"r","i","c","e">>

s_None == <<"N","o","n","e">>

s_male == <<"m","a","l","e">>

s_Male == <<"M","a","l","e">>

s_female == <<"f","e","m","a","l","e">>

s_sp_Vegan == <<" ","V","e","g","a","n">>

s_veg == <<"v","e","g">>

s_vegetarian == <<"v","e","g","e","t","a","r","i","a","n">>

s_balanced == <<"b","a","l","a","n","c","e","d">>

s_is_healthy == <<"i","s","_","h","e","a","l","t","h","y">>

s_low_carb == <<"l","o","w","_","c","a","r","b">>

s_low_carb_h == <<"l","o","w","-","c","a","r","b">>

s_low_sodium == <<"l","o","w","_","s","o","d","i","u","m">>

s_low_sodium_h == <<"l","o","w","-","s","o","d","i","u","m">>

s_high_protein_u == <<"h","i","g","h","_","p","r","o","t","e","i","n">>

s_gluten_free == <<"g","l","u","t","e","n","_","f","r","e","e">>

s_gluten_free_h == <<"g","l","u","t","e","n","-","f","r","e","e">>

RECURSIVE StripLeft(_)
StripLeft(s) == IF s # <<>> /\ Head(s) = " " THEN StripLeft(Tail(s)) ELSE s

RECURSIVE StripRight(_)
StripRight(s) ==
    IF s # <<>> /\ s[Len(s)] = " " THEN StripRight(SubSeq(s, 1, Len(s) - 1)) ELSE s

\* str.strip(), for the blank as the only whitespace
Strip(s) == StripRight(StripLeft(s))

-----------------------------------------------------------------------------
(* Encoded list attributes.  A dietary_tags / ingredients / allergies value *)
(* is a record [kind, items]:                                               *)
(*   "list"   a native Python list holding items                            *)
(*   "json"   a str that json.loads decodes to items                        *)
(*   "pyrepr" a str such as "['a']" that json.loads rejects, eval decodes   *)
(*   "bad"    a non-empty str that neither json.loads nor eval decodes      *)
(*   "empty"  the empty str or None                                         *)

Enc(kind, items) == [kind |-> kind, items |-> items]

\* The tag / ingredient list the filter works with.
FilterDecode(f) ==
    IF f.kind \in {"list", "json", "pyrepr"} THEN LowerAll(f.items) ELSE <<>>

\* The conditional expression of the slot's 'ingredients' entry raises.
PlanIngredientsRaises(f) == f.kind \in {"pyrepr", "bad"}

\* The value of the slot's 'ingredients' entry when it does not raise.
PlanIngredients(f) ==
    IF f.kind \in {"list", "json"} THEN f.items ELSE <<>>

\* allergies = json.loads(user_profile.allergies) if user_profile.allergies else [],
\* with every exception giving [].
ParseAllergies(a) == IF a.kind = "json" THEN a.items ELSE <<>>

-----------------------------------------------------------------------------
(* filter_meals_by_preference *)

Range(s) == {s[i] : i \in 1..Len(s)}

\* if dietary_preference and dietary_preference != 'none':
\*     if dietary_preference not in tags and dietary_preference != 'high-protein': continue
PreferenceKeeps(tags, dietary_preference) ==
    IF dietary_preference # <<>> /\ dietary_preference # s_none
    THEN InSeq(dietary_preference, tags) \/ dietary_preference = s_high_protein
    ELSE TRUE

\* if allergies:
\*     if any(a.lower() in (ing for ing in ingredients) for a in allergies): continue
AllergyKeeps(ingredients, allergy_terms) ==
    IF allergy_terms # <<>>
    THEN ~ \E i \in 1..Len(allergy_terms) : InSeq(Lower(allergy_terms[i]), ingredients)
    ELSE TRUE

\* One iteration of the filter loop: TRUE when out.append(m) is reached.
FilterKeeps(m, dietary_preference, allergy_terms) ==
    /\ PreferenceKeeps(FilterDecode(m.dietary_tags), dietary_preference)
    /\ AllergyKeeps(FilterDecode(m.ingredients), allergy_terms)

filter_meals_by_preference(meals, dietary_preference, allergy_terms) ==
    SelectSeq(meals, LAMBDA m : FilterKeeps(m, dietary_preference, allergy_terms))

-----------------------------------------------------------------------------
(* score_meal, without the jitter term random.random() *)

Abs(x) == IF x < 0 THEN -x ELSE x

Max(a, b) == IF a >= b THEN a ELSE b

\* target * per[mtype], in quarters (targets of the model are multiples of 5)
SlotTarget(target, mtype) == (target * Per[mtype]) \div 25

\* target_mac = {k: total_macros[k] * per[mtype] for k in total_macros}
SlotMacros(profile, mtype) ==
    [protein |-> SlotTarget(profile.target_protein, mtype),
     carbs   |-> SlotTarget(profile.target_carbs, mtype),
     fat     |-> SlotTarget(profile.target_fat, mtype)]

\* max(1, target_calories_per_meal), in quarters
CalDen(target_c) == Max(4, target_c)

\* cal_score * CalDen
CalNum(meal, target_c) ==
    Max(0, 30 * CalDen(target_c) - 30 * Abs(meal.calories - target_c))

\* 2 * protein_weight
ProteinWeight2(dietary_preference) ==
    IF dietary_preference = s_high_protein THEN 6 ELSE 2

\* 2 * carb_weight
CarbWeight2(dietary_preference) ==
    IF dietary_preference = s_high_protein THEN 1 ELSE 2

\* protein_bonus; protein_pct = (meal.protein * 4) / max(1, meal.calories)
ProteinBonus_Never(meal, dietary_preference) == 0

ProteinBonus(meal, dietary_preference) ==
    IF dietary_preference = s_high_protein
    THEN IF 400 * meal.protein >= 35 * Max(4, meal.calories) THEN 20
         ELSE IF 400 * meal.protein >= 30 * Max(4, meal.calories) THEN 10
         ELSE 0
    ELSE 0

\* 2 * denom
MacroDen(target_mac, dietary_preference) ==
    target_mac.protein * ProteinWeight2(dietary_preference)
    + target_mac.carbs * CarbWeight2(dietary_preference)
    + 2 * Max(4, target_mac.fat)

\* 2 * (p_diff + c_diff + f_diff)
MacroDev(meal, target_mac, dietary_preference) ==
    Abs(meal.protein - target_mac.protein) * ProteinWeight2(dietary_preference)
    + Abs(meal.carbs - target_mac.carbs) * CarbWeight2(dietary_preference)
    + 2 * Abs(meal.fat - target_mac.fat)

\* macro_score * MacroDen
MacroNum(meal, target_mac, dietary_preference) ==
    Max(0, 50 * MacroDen(target_mac, dietary_preference)
           - 50 * MacroDev(meal, target_mac, dietary_preference))
    + ProteinBonus(meal, dietary_preference) * MacroDen(target_mac, dietary_preference)

\* The common denominator of the scores of one slot.
ScoreDen(target_c, target_mac, dietary_preference) ==
    CalDen(target_c) * MacroDen(target_mac, dietary_preference)

\* (cal_score + macro_score) * ScoreDen: the score without its jitter
ScoreNum(meal, target_c, target_mac, dietary_preference) ==
    CalNum(meal, target_c) * MacroDen(target_mac, dietary_preference)
    + MacroNum(meal, target_mac, dietary_preference) * CalDen(target_c)

-----------------------------------------------------------------------------
(* select_best_meal and the two random choices *)

\* A selection that forgets the meal_type test.
OfType_AnyType(meals, mtype) == meals

\* candidates = [m for m in meals_pool if m.meal_type == meal_type]
OfType(meals, mtype) == SelectSeq(meals, LAMBDA m : m.meal_type = mtype)

\* A jitter twice as wide.
CanOutrank_DoubleJitter(i, j, sc, so, jitter_free, unit) == sc - so > - 2 * unit

\* Whether the key of the candidate at position i can come out above the key
\* of the candidate at position j (equal to it, when i is the earlier one:
\* max and a stable sort keep the first of equal keys).  sc and so are the
\* jitter-free keys over den, unit is den over one score point.  A key is
\* score + random.random() in floating point, and random.random() ranges over
\* [0, 1 - 2^-53]: the key is at least score and below score + 1, except that
\* for a score of 1 or more the sum with the largest jitter rounds to score + 1.
CanOutrank(i, j, sc, so, jitter_free, unit) ==
    \/ sc - so > - unit
    \/ /\ i < j
       /\ sc - so = - unit
       /\ jitter_free >= unit

\* Whether max(candidates, key=score) can return candidates[i].
CanBeBest(candidates, i, target_c, target_mac, dietary_preference) ==
    LET den == ScoreDen(target_c, target_mac, dietary_preference)
        score == [m \in Range(candidates) |->
                     ScoreNum(m, target_c, target_mac, dietary_preference)]
    IN  \A j \in 1..Len(candidates) :
            CanOutrank(i, j, score[candidates[i]], score[candidates[j]],
                       score[candidates[i]], den)

\* The candidates max(candidates, key=score) can return, over every jitter.
BestMeals(candidates, target_c, target_mac, dietary_preference) ==
    {candidates[i] : i \in {k \in 1..Len(candidates) :
        CanBeBest(candidates, k, target_c, target_mac, dietary_preference)}}

\* A generator without the fallback to the unfiltered pool.
FallbackCandidates_None(meals, mtype) == <<>>

\* candidates = [m for m in all_meals if getattr(m, 'meal_type', None) == mtype]
FallbackCandidates(meals, mtype) == OfType(meals, mtype)

\* name is truthy
Named(name) == name # None /\ name # ""

\* A restriction that ignores the usage tracker.
Unused_IgnoresTracker(meals, mtype, used) ==
    SelectSeq(meals, LAMBDA m : m.meal_type = mtype)

\* available = [m for m in pool if m.meal_type == mtype
\*              and getattr(m, 'name', None) not in used_meals[mtype]]
Unused(meals, mtype, used) ==
    SelectSeq(meals, LAMBDA m : m.meal_type = mtype /\ m.name \notin used)

\* if meal_name and meal_name not in used_meals[mtype]: score += 0.5
\* (twice the bonus, times ScoreDen)
VarietyBonus2(m, used, den) == IF Named(m.name) /\ m.name \notin used THEN den ELSE 0

\* A weekly selection that ignores the scores.
WeeklyBest_AnyCandidate(available, used, target_c, target_mac, dietary_preference) ==
    Range(available)

\* The meals scored[0][1] can be after scored.sort(reverse=True): twice the
\* jitter-free score plus twice the variety bonus, against a jitter of up to
\* 2 * den.
WeeklyBest(available, used, target_c, target_mac, dietary_preference) ==
    LET den == ScoreDen(target_c, target_mac, dietary_preference)
        score == [m \in Range(available) |->
                     ScoreNum(m, target_c, target_mac, dietary_preference)]
        adj == [m \in Range(available) |-> 2 * score[m] + VarietyBonus2(m, used, den)]
    IN  {available[i] : i \in {k \in 1..Len(available) :
            \A j \in 1..Len(available) :
                CanOutrank(k, j, adj[available[k]], adj[available[j]],
                           2 * score[available[k]], 2 * den)}}

\* A tracker that never records the selected name.
MarkUsed_Never(used, name) == used

\* A tracker that records the name whatever it is.
MarkUsed_AnyName(used, name) == used \cup {name}

\* if meal_name: used_meals[mtype].add(meal_name)
MarkUsed(used, name) == IF Named(name) THEN used \cup {name} ELSE used

-----------------------------------------------------------------------------
(* Plan entries and totals *)

\* round(x, 1) of a value held in quarters, in tenths: ties go to the even digit
Round1(q) ==
    LET n == q \div 4
        r == q % 4
    IN  10 * n + (CASE r = 0 -> 0 [] r = 1 -> 2 [] r = 2 -> 5 [] OTHER -> 8)

\* plan[mtype] = {'id': ..., 'name': ..., ..., 'ingredients': ...}
SlotEntry(sel) ==
    [id          |-> sel.id,
     name        |-> sel.name,
     meal_type   |-> sel.meal_type,
     calories    |-> Round1(sel.calories),
     protein     |-> Round1(sel.protein),
     carbs       |-> Round1(sel.carbs),
     fat         |-> Round1(sel.fat),
     ingredients |-> PlanIngredients(sel.ingredients)]

\* daily_totals = {'calories': 0, 'protein': 0, 'carbs': 0, 'fat': 0}
ZeroTotals == [calories |-> 0, protein |-> 0, carbs |-> 0, fat |-> 0]

\* An accumulation that leaves out the fat of the selected meal.
AddTotals_WithoutFat(totals, sel) ==
    [calories |-> totals.calories + sel.calories,
     protein  |-> totals.protein + sel.protein,
     carbs    |-> totals.carbs + sel.carbs,
     fat      |-> totals.fat]

\* daily_totals['calories'] += getattr(sel, 'calories', 0), and so on
AddTotals(totals, sel) ==
    [calories |-> totals.calories + sel.calories,
     protein  |-> totals.protein + sel.protein,
     carbs    |-> totals.carbs + sel.carbs,
     fat      |-> totals.fat + sel.fat]

\* plan['daily_totals'] = {'calories': round(daily_totals['calories'], 1), ...}
RoundTotals(totals) ==
    [calories |-> Round1(totals.calories),
     protein  |-> Round1(totals.protein),
     carbs    |-> Round1(totals.carbs),
     fat      |-> Round1(totals.fat)]

\* A reference to the meal object sel: its position in the list of all meals.
RefOf(meals, sel) == CHOOSE i \in 1..Len(meals) : meals[i] = sel

\* A plan without slots.
NoSlots == [t \in {} |-> 0]

\* plan[mtype] = entry
WithSlot(slots, mtype, entry) ==
    [t \in (DOMAIN slots) \cup {mtype} |-> IF t = mtype THEN entry ELSE slots[t]]

\* A plan date that forgets the day offset.
PlanDate_NoOffset(start, offset) == start

\* plan_date = start_date + timedelta(days=day_offset), dates as day ordinals
PlanDate(start, offset) == start + offset

WeekdayNames == <<"Monday", "Tuesday", "Wednesday", "Thursday", "Friday",
                  "Saturday", "Sunday">>

\* plan_date.strftime('%A'); ordinal 1 (0001-01-01) is a Monday
DayOfWeek(ordinal) == WeekdayNames[((ordinal + 6) % 7) + 1]

-----------------------------------------------------------------------------
(* The calculators of services/nutrition_calculator.py, which                 *)
(* RecommendationEngine repeats line by line.  Ages, heights and weights are  *)
(* whole numbers; a BMR is held in quarters of a kcal, a TDEE and a calorie   *)
(* target in 1/4000 kcal (a quarter times a multiplier in thousandths), so    *)
(* that every product is exact.                                               *)

\* The number of 1/4000 kcal in one kcal.
KcalUnit == 4000

\* round(num / den) for den > 0: to the nearest integer, a tie to the even one
RoundHalfEven(num, den) ==
    LET fl == num \div den
        r2 == 2 * (num % den)
    IN  IF r2 > den THEN fl + 1
        ELSE IF r2 < den THEN fl
        ELSE IF fl % 2 = 0 THEN fl ELSE fl + 1

\* calculate_bmr with the -161 branch taken for every gender.
calculate_bmr_AlwaysMinus161(age, height_cm, weight_kg, gender) ==
    40 * weight_kg + 25 * height_cm - 20 * age - 644

\* gender.lower() == 'male' selects +5, everything else -161; in quarters
calculate_bmr(age, height_cm, weight_kg, gender) ==
    IF Lower(gender) = s_male
    THEN 40 * weight_kg + 25 * height_cm - 20 * age + 20
    ELSE 40 * weight_kg + 25 * height_cm - 20 * age - 644

\* The mapping with default 1.55 in place of 1.2.
ActivityMultiplier_DefaultModerate(activity_level) ==
    CASE activity_level = "sedentary" -> 1200
      [] activity_level = "lightly_active" -> 1375
      [] activity_level = "moderately_active" -> 1550
      [] activity_level = "very_active" -> 1725
      [] activity_level = "extremely_active" -> 1900
      [] OTHER -> 1550

\* mapping.get(activity_level, 1.2), in thousandths
ActivityMultiplier(activity_level) ==
    CASE activity_level = "sedentary" -> 1200
      [] activity_level = "lightly_active" -> 1375
      [] activity_level = "moderately_active" -> 1550
      [] activity_level = "very_active" -> 1725
      [] activity_level = "extremely_active" -> 1900
      [] OTHER -> 1200

\* val = bmr * mapping.get(activity_level, 1.2): quarters times thousandths
calculate_tdee(bmr, activity_level) == bmr * ActivityMultiplier(activity_level)

\* calculate_target_calories without the floor of 1200.
calculate_target_calories_NoFloor(tdee, health_goal) ==
    IF health_goal = "weight_loss" THEN tdee - 500 * KcalUnit
    ELSE IF health_goal = "muscle_gain" THEN tdee + 300 * KcalUnit
    ELSE tdee

\* weight_loss: max(1200, tdee - 500); muscle_gain: tdee + 300; else tdee
calculate_target_calories(tdee, health_goal) ==
    IF health_goal = "weight_loss" THEN Max(1200 * KcalUnit, tdee - 500 * KcalUnit)
    ELSE IF health_goal = "muscle_gain" THEN tdee + 300 * KcalUnit
    ELSE tdee

\* Ratios whose keto branch gives fat 0.5.
MacroRatios_KetoFatHalf(dietary_preference) ==
    IF dietary_preference = s_keto THEN [protein |-> 3, carbs |-> 1, fat |-> 5]
    ELSE IF dietary_preference = s_high_protein THEN [protein |-> 4, carbs |-> 3, fat |-> 3]
    ELSE [protein |-> 3, carbs |-> 4, fat |-> 3]

\* ratios, in tenths
MacroRatios(dietary_preference) ==
    IF dietary_preference = s_keto THEN [protein |-> 3, carbs |-> 1, fat |-> 6]
    ELSE IF dietary_preference = s_high_protein THEN [protein |-> 4, carbs |-> 3, fat |-> 3]
    ELSE [protein |-> 3, carbs |-> 4, fat |-> 3]

\* calculate_macros with fat at 4 kcal per gram.
calculate_macros_FatPer4(target_calories, dietary_preference) ==
    LET ratios == MacroRatios(dietary_preference)
    IN  [protein |-> RoundHalfEven(target_calories * ratios.protein, 10 * 4 * KcalUnit),
         carbs   |-> RoundHalfEven(target_calories * ratios.carbs, 10 * 4 * KcalUnit),
         fat     |-> RoundHalfEven(target_calories * ratios.fat, 10 * 4 * KcalUnit)]

\* macros = {'protein': round(c * rp / 4), 'carbs': round(c * rc / 4),
\*           'fat': round(c * rf / 9)}, in grams, for c in 1/4000 kcal
calculate_macros(target_calories, dietary_preference) ==
    LET ratios == MacroRatios(dietary_preference)
    IN  [protein |-> RoundHalfEven(target_calories * ratios.protein, 10 * 4 * KcalUnit),
         carbs   |-> RoundHalfEven(target_calories * ratios.carbs, 10 * 4 * KcalUnit),
         fat     |-> RoundHalfEven(target_calories * ratios.fat, 10 * 9 * KcalUnit)]

-----------------------------------------------------------------------------
(* Inputs: the meals a pool is drawn from, and the profiles *)

Meal(id, name, mtype, cal, prot, carb, fat, tags, ingr) ==
    [id |-> id, name |-> name, meal_type |-> mtype,
     calories |-> cal, protein |-> prot, carbs |-> carb, fat |-> fat,
     dietary_tags |-> tags, ingredients |-> ingr]

\* Meals as the database (ids, JSON text) and the CSV fixtures (no id, native
\* lists) supply them, nutrition in quarters.
Catalogue ==
    << Meal(1, "Oats", "breakfast", 2001, 150, 200, 65,
            Enc("list", <<s_vegan>>), Enc("list", <<s_oats>>)),
       Meal(2, "Tofu", "breakfast", 2001, 150, 200, 65,
            Enc("json", <<s_Vegan>>), Enc("json", <<s_peanut>>)),
       Meal(3, "Oats", "breakfast", 1000, 40, 100, 20,
            Enc("list", <<s_vegan, s_keto>>), Enc("list", <<s_oats, s_rice>>)),
       Meal(4, "Eggs", "breakfast", 1800, 170, 100, 70,
            Enc("bad", <<>>), Enc("json", <<s_Nut>>)),
       Meal(5, "Wrap", "lunch", 2600, 250, 200, 80,
            Enc("empty", <<>>), Enc("bad", <<>>)),
       Meal(6, "Rice", "lunch", 2801, 211, 281, 90,
            Enc("json", <<s_vegan>>), Enc("list", <<s_rice>>)),
       Meal(7, "Soup", "dinner", 2403, 180, 300, 60,
            Enc("pyrepr", <<s_vegan>>), Enc("json", <<s_rice, s_peanut>>)),
       Meal(NoId, None, "snack", 401, 31, 41, 13,
            Enc("list", <<s_Vegan>>), Enc("list", <<s_nut>>)),
       Meal(NoId, "Bar", "snack", 390, 20, 50, 11,
            Enc("list", <<s_vegan>>), Enc("empty", <<>>)) >>

\* The k-th smallest element of a set of numbers.
Kth(S, k) == CHOOSE x \in S : Cardinality({y \in S : y < x}) = k - 1

\* The meals of the catalogue with index in S, in catalogue order.
PoolOf(S) == [k \in 1..Cardinality(S) |-> Catalogue[Kth(S, k)]]

\* Every meal pool of at most MaxMeals meals (the empty one included).
Pools ==
    {PoolOf(S) : S \in {T \in SUBSET (1..Len(Catalogue)) : Cardinality(T) <= MaxMeals}}

Preferences == {<<>>, s_none, s_vegan, s_Vegan, s_high_protein}

AllergyValues ==
    {Enc("empty", <<>>), Enc("json", <<s_Nut>>), Enc("list", <<s_nut>>)}

\* A user object with its targets, preference and (encoded) allergies.
Profiles ==
    {[target_calories |-> 2000, target_protein |-> 150, target_carbs |-> 200,
      target_fat |-> 65, dietary_preference |-> p, allergies |-> a] :
        p \in Preferences, a \in AllergyValues}

\* date.today(), as a day ordinal (738000 is a Thursday)
Dates == {738000}

-----------------------------------------------------------------------------
(* State *)

VARIABLES
    mode,          \* the operation called: "daily", "weekly" or "predict"
    all_meals,     \* argument all_meals: the unfiltered meal pool
    user_profile,  \* argument user_profile
    today,         \* the calendar day of the call, as an ordinal
    pc,            \* position: "start", "slots", "done", "raised", ...
    allergies,     \* local allergies (decoded terms)
    pool,          \* local pool: the filtered meals
    start_date,    \* local start_date (weekly)
    day_offset,    \* loop variable day_offset (weekly)
    slot,          \* index into MealTypes of the next mtype of the inner loop
    used_meals,    \* local used_meals: mtype -> set of names (weekly)
    day_slots,     \* the slot entries of plan / day_plan
    daily_totals,  \* local daily_totals, the accumulators, in quarters
    day_sel,       \* the object sel bound in each filled slot of this day, as its
                   \* position in all_meals
    weekly_plan,   \* local weekly_plan
    week_sel,      \* day_sel of every finished day of the week
    reset_log,     \* the "Resetting used meals for <mtype> on day <n>" log lines
    result,        \* <<plan>> once generate_daily_meal_plan has returned
    request,       \* the PredictRequest of a predict call
    diet_label,    \* local diet_label of predict: the lower-cased predicted label
    candidate_meals, \* local meals of predict: the candidate meals
    recommended_meals, \* local recommended_meals of predict
    error,         \* <<exception>> once predict has raised
    calc_args,     \* the payload the calculators are applied to
    calc_pc,       \* the calculator to apply next, "done" or "raised"
    calc_out,      \* the values the calculators have returned
    call,          \* which of two calls on the one engine is running (0: a single call)
    suspended,     \* the locals of the call that is not running
    csv_file,      \* the name cells of the rows of the CSV file, as character tuples
    meals_table,   \* the committed rows of table meals
    users_table,   \* the committed rows of table users
    meal_plans_table, \* the committed rows of table meal_plans
    session_new,   \* the rows the session has added and flushed but not committed
    seed,          \* the locals of seed_meals_from_csv
    seed_runs,     \* what each finished run of seed_meals_from_csv returned and left
    endpoint,      \* the locals of a create-user endpoint
    response       \* <<PredictResponse>> once predict has returned

vars == <<mode, all_meals, user_profile, today, pc, allergies, pool, start_date,
          day_offset, slot, used_meals, day_slots, daily_totals, day_sel,
          weekly_plan, week_sel, reset_log, result, request, diet_label,
          candidate_meals, recommended_meals, error, calc_args, calc_pc, calc_out,
          call, suspended, csv_file, meals_table, users_table, meal_plans_table,
          session_new, seed, seed_runs, endpoint, response>>

inputs == <<mode, all_meals, user_profile, today, request>>

\* The locals of predict outside the plan generator.
predict_locals == <<diet_label, candidate_meals, recommended_meals, error>>

\* None, for a value whose other values are texts.
NoText == <<None>>

\* The database, the session, and the locals of the functions that write to it.
db_state == <<csv_file, meals_table, users_table, meal_plans_table, session_new, seed,
              seed_runs, endpoint>>

\* The state of the calculators, of a second call, and of the database.
calc_state == <<calc_args, calc_pc, calc_out, call, suspended, db_state>>

\* seed_meals_from_csv is not running.
NoSeed == [pc |-> "none"]

\* No create-user endpoint is running.
NoEndpoint == [pc |-> "none"]

\* Empty tables, an empty session, and no function at work on them.
DbIdle ==
    /\ csv_file = <<>>
    /\ meals_table = <<>>
    /\ users_table = <<>>
    /\ meal_plans_table = <<>>
    /\ session_new = <<>>
    /\ seed = NoSeed
    /\ seed_runs = <<>>
    /\ endpoint = NoEndpoint

\* No second call.
NoFrame == [pc |-> "none"]

\* A value not computed yet.
NotYet == -1

\* No payload.
NoPayload == [kind |-> "none"]

NoOutput == [bmr |-> NotYet, tdee |-> NotYet, target_calories |-> NotYet,
             macros |-> [protein |-> NotYet, carbs |-> NotYet, fat |-> NotYet]]

\* The modes in which generate_daily_meal_plan runs: called directly, or by predict.
DailyModes == {"daily", "predict"}

\* No predict call is in progress.
NoRequest ==
    [user_id |-> NoId, has_profile |-> FALSE, weekly |-> FALSE, use_csv |-> FALSE,
     preference |-> NoText, profile_pref |-> NoText]

NoneUsed == [t \in MealTypeSet |-> {}]

Init ==
    /\ mode \in {"daily", "weekly"}
    /\ all_meals \in Pools
    /\ user_profile \in Profiles
    /\ today \in Dates
    /\ pc = "start"
    /\ allergies = <<>>
    /\ pool = <<>>
    /\ start_date = 0
    /\ day_offset = 0
    /\ slot = 1
    /\ used_meals = NoneUsed
    /\ day_slots = NoSlots
    /\ daily_totals = ZeroTotals
    /\ day_sel = NoSlots
    /\ weekly_plan = <<>>
    /\ week_sel = <<>>
    /\ reset_log = {}
    /\ result = <<>>
    /\ request = NoRequest
    /\ diet_label = NoText
    /\ candidate_meals = <<>>
    /\ recommended_meals = <<>>
    /\ error = <<>>
    /\ calc_args = NoPayload
    /\ calc_pc = "idle"
    /\ calc_out = NoOutput
    /\ call = 0
    /\ suspended = NoFrame
    /\ DbIdle
    /\ response = <<>>

-----------------------------------------------------------------------------
(* generate_daily_meal_plan *)

\* What select_best_meal can return: the empty set stands for None.
select_best_meal(meals_pool, mtype, target_c, target_mac, dietary_preference) ==
    IF OfType(meals_pool, mtype) = <<>>
    THEN {}
    ELSE BestMeals(OfType(meals_pool, mtype), target_c, target_mac, dietary_preference)

\* A daily loop that always draws from the unfiltered meals of the type.
DailyChoices_Unfiltered(meals, filtered, profile, mtype) ==
    Range(FallbackCandidates(meals, mtype))

\* The meals sel can be bound to in one iteration of the daily loop; the empty
\* set stands for `continue`.
DailyChoices(meals, filtered, profile, mtype) ==
    LET best == select_best_meal(filtered, mtype,
                                 SlotTarget(profile.target_calories, mtype),
                                 SlotMacros(profile, mtype),
                                 profile.dietary_preference)
    IN  IF best # {} THEN best ELSE Range(FallbackCandidates(meals, mtype))

\* Lines 252-264: targets, allergies, the filtered pool, the empty plan.
DailyStart ==
    /\ mode \in DailyModes
    /\ pc = "start"
    /\ allergies' = ParseAllergies(user_profile.allergies)
    /\ pool' = filter_meals_by_preference(all_meals, user_profile.dietary_preference,
                                          ParseAllergies(user_profile.allergies))
    /\ day_slots' = NoSlots
    /\ daily_totals' = ZeroTotals
    /\ day_sel' = NoSlots
    /\ slot' = 1
    /\ pc' = "slots"
    /\ UNCHANGED <<calc_state, inputs, predict_locals, response, start_date, day_offset, used_meals, weekly_plan,
                   week_sel, reset_log, result>>

\* One iteration of `for mtype in [...]`, lines 265-287.
DailySlot ==
    /\ mode \in DailyModes
    /\ pc = "slots"
    /\ slot <= Len(MealTypes)
    /\ LET mtype == MealTypes[slot]
           choices == DailyChoices(all_meals, pool, user_profile, mtype)
       IN  IF choices = {}
           THEN /\ slot' = slot + 1
                /\ UNCHANGED <<pc, day_slots, daily_totals, day_sel>>
           ELSE \E sel \in choices :
                    IF PlanIngredientsRaises(sel.ingredients)
                    THEN /\ pc' = "raised"
                         /\ UNCHANGED <<slot, day_slots, daily_totals, day_sel>>
                    ELSE /\ day_slots' = WithSlot(day_slots, mtype, SlotEntry(sel))
                         /\ daily_totals' = AddTotals(daily_totals, sel)
                         /\ day_sel' = WithSlot(day_sel, mtype, RefOf(all_meals, sel))
                         /\ slot' = slot + 1
                         /\ pc' = pc
    /\ UNCHANGED <<calc_state, inputs, predict_locals, response, allergies, pool, start_date, day_offset, used_meals,
                   weekly_plan, week_sel, reset_log, result>>

\* Lines 289-300: the rounded totals, the date, return plan.
DailyReturn ==
    /\ mode \in DailyModes
    /\ pc = "slots"
    /\ slot > Len(MealTypes)
    /\ result' = <<[slots |-> day_slots,
                    daily_totals |-> RoundTotals(daily_totals),
                    date |-> today]>>
    /\ pc' = "done"
    /\ UNCHANGED <<calc_state, inputs, predict_locals, response, allergies, pool, start_date, day_offset, slot, used_meals,
                   day_slots, daily_totals, day_sel, weekly_plan, week_sel, reset_log>>

-----------------------------------------------------------------------------
(* generate_weekly_meal_plan *)

\* A tracker that is not cleared when every name is used.
UsedAfterReset_KeepsNames(meals, mtype, used) == used

\* Lines 350-353: the tracker of mtype after `if not available: ... clear()`.
UsedAfterReset(meals, mtype, used) ==
    IF Unused(meals, mtype, used) = <<>> THEN {} ELSE used

\* One tracker for all four slot types.
TrackerAfter_AllTypes(trackers, mtype, used) == [t \in MealTypeSet |-> used]

\* used_meals[mtype].clear() and used_meals[mtype].add(meal_name) act on the
\* set of the one slot type.
TrackerAfter(trackers, mtype, used) == [trackers EXCEPT ![mtype] = used]

\* A list `available` that is not restricted to unused names.
Available_WholeType(meals, filtered, mtype, used) ==
    IF OfType(filtered, mtype) # <<>> THEN OfType(filtered, mtype)
    ELSE FallbackCandidates(meals, mtype)

\* Lines 348-358: the list `available` that is scored; <<>> stands for `continue`.
Available(meals, filtered, mtype, used) ==
    IF Unused(filtered, mtype, used) # <<>> THEN Unused(filtered, mtype, used)
    ELSE IF OfType(filtered, mtype) # <<>> THEN OfType(filtered, mtype)
    ELSE FallbackCandidates(meals, mtype)

\* Lines 321-336: targets, allergies, the filtered pool, the empty week.
WeeklyStart ==
    /\ mode = "weekly"
    /\ pc = "start"
    /\ allergies' = ParseAllergies(user_profile.allergies)
    /\ pool' = filter_meals_by_preference(all_meals, user_profile.dietary_preference,
                                          ParseAllergies(user_profile.allergies))
    /\ weekly_plan' = <<>>
    /\ week_sel' = <<>>
    /\ used_meals' = NoneUsed
    /\ start_date' = today
    /\ day_offset' = 0
    /\ day_slots' = NoSlots
    /\ daily_totals' = ZeroTotals
    /\ day_sel' = NoSlots
    /\ slot' = 1
    /\ pc' = "slots"
    /\ UNCHANGED <<calc_state, inputs, predict_locals, response, reset_log, result>>

\* One iteration of the inner loop, lines 343-394.
WeeklySlot ==
    /\ mode = "weekly"
    /\ pc = "slots"
    /\ day_offset < Days
    /\ slot <= Len(MealTypes)
    /\ LET mtype == MealTypes[slot]
           target_c == SlotTarget(user_profile.target_calories, mtype)
           target_mac == SlotMacros(user_profile, mtype)
           cleared == Unused(pool, mtype, used_meals[mtype]) = <<>>
           used == UsedAfterReset(pool, mtype, used_meals[mtype])
           available == Available(all_meals, pool, mtype, used_meals[mtype])
       IN  /\ reset_log' = IF cleared THEN reset_log \cup {<<mtype, day_offset + 1>>}
                           ELSE reset_log
           /\ IF available = <<>>
              THEN /\ slot' = slot + 1
                   /\ used_meals' = TrackerAfter(used_meals, mtype, used)
                   /\ UNCHANGED <<pc, day_slots, daily_totals, day_sel>>
              ELSE \E sel \in WeeklyBest(available, used, target_c, target_mac,
                                         user_profile.dietary_preference) :
                       /\ used_meals' = TrackerAfter(used_meals, mtype, MarkUsed(used, sel.name))
                       /\ IF PlanIngredientsRaises(sel.ingredients)
                          THEN /\ pc' = "raised"
                               /\ UNCHANGED <<slot, day_slots, daily_totals, day_sel>>
                          ELSE /\ day_slots' = WithSlot(day_slots, mtype, SlotEntry(sel))
                               /\ daily_totals' = AddTotals(daily_totals, sel)
                               /\ day_sel' = WithSlot(day_sel, mtype, RefOf(all_meals, sel))
                               /\ slot' = slot + 1
                               /\ pc' = pc
    /\ UNCHANGED <<calc_state, inputs, predict_locals, response, allergies, pool, start_date, day_offset, weekly_plan,
                   week_sel, result>>

\* Lines 396-405 and 339-341: the day is appended and the next day begins.
WeeklyDayEnd ==
    /\ mode = "weekly"
    /\ pc = "slots"
    /\ day_offset < Days
    /\ slot > Len(MealTypes)
    /\ weekly_plan' = Append(weekly_plan,
                             [slots |-> day_slots,
                              daily_totals |-> RoundTotals(daily_totals),
                              date |-> PlanDate(start_date, day_offset),
                              day_of_week |-> DayOfWeek(PlanDate(start_date, day_offset))])
    /\ week_sel' = Append(week_sel, day_sel)
    /\ day_offset' = day_offset + 1
    /\ day_slots' = NoSlots
    /\ daily_totals' = ZeroTotals
    /\ day_sel' = NoSlots
    /\ slot' = 1
    /\ UNCHANGED <<calc_state, inputs, predict_locals, response, pc, allergies, pool, start_date, used_meals, reset_log, result>>

\* Lines 407-408: return weekly_plan.
WeeklyReturn ==
    /\ mode = "weekly"
    /\ pc = "slots"
    /\ day_offset >= Days
    /\ pc' = "done"
    /\ UNCHANGED <<calc_state, inputs, predict_locals, response, allergies, pool, start_date, day_offset, slot, used_meals,
                   day_slots, daily_totals, day_sel, weekly_plan, week_sel, reset_log,
                   result>>

-----------------------------------------------------------------------------
(* predict, api/train.py: validation, the model, the candidate meals, the   *)
(* plan, the response.  user_profile is the object the plan is generated    *)
(* for: the stored user of request.user_id, or the one assembled from the   *)
(* inline profile and the predicted label.                                  *)

\* x is falsy: None or the empty text
Falsy(x) == x = NoText \/ x = <<>>

\* The ids db.get(models.User, id) finds.
DbUsers == {1}

\* request.preference, as sent
RequestPreferences == {NoText, s_sp_Vegan, s_high_protein}

\* profile.get('Dietary_Preference') or profile.get('dietary_preference')
\*     or profile.get('Dietary_Restrictions'), as sent
ProfilePreferences == {NoText, s_None}

Requests ==
    {r \in [user_id : {NoId, 1, 2}, has_profile : BOOLEAN, weekly : BOOLEAN,
            use_csv : BOOLEAN, preference : RequestPreferences,
            profile_pref : ProfilePreferences] :
        r.profile_pref # NoText => (r.user_id = NoId /\ r.has_profile)}

\* The labels str(classes[idx]).lower() of the trained model.
DietLabels == {s_balanced, s_vegan, s_high_protein_u}

\* The rows of the users table: allergies is a Text column.
StoredProfiles ==
    {p \in Profiles : /\ p.dietary_preference \in {s_vegan, s_high_protein}
                      /\ p.allergies.kind \in {"empty", "json"}}

\* The user the plan is made for, before the model is asked: the stored row, or
\* the inline profile with allergies=json.dumps(profile.get('Allergies') or [])
\* and the preference still to be predicted.
PredictProfiles(req) ==
    IF req.user_id = NoId
    THEN {[p EXCEPT !.allergies = Enc("json", p.allergies.items),
                    !.dietary_preference = NoText] :
              p \in {q \in Profiles : q.dietary_preference = <<>>
                                      /\ q.allergies.kind # "list"}}
    ELSE StoredProfiles

\* A row of the meals table as ingest_meals writes it: dietary_tags as JSON
\* text, ingredients as str(list).
DbRow(m) ==
    [m EXCEPT !.dietary_tags = IF @.kind = "list" THEN Enc("json", @.items) ELSE @,
              !.ingredients = IF @.kind = "list" THEN Enc("pyrepr", @.items) ELSE @]

\* A row of parse_meals_csv as a SimpleNamespace: no id, native lists.
CsvRow(m) == [m EXCEPT !.id = NoId]

IsCsvRow(m) ==
    /\ Named(m.name)
    /\ m.dietary_tags.kind = "list"
    /\ m.ingredients.kind \in {"list", "empty"}

\* all_meals as predict reads it from the requested source.
SourcePools(use_csv) ==
    IF use_csv
    THEN {[i \in 1..Len(q) |-> CsvRow(q[i])] :
              q \in {r \in Pools : \A m \in Range(r) : IsCsvRow(m)}}
    ELSE {[i \in 1..Len(q) |-> DbRow(q[i])] :
              q \in {r \in Pools : \A m \in Range(r) : m.id # NoId}}

InitPredict ==
    /\ mode = "predict"
    /\ request \in Requests
    /\ all_meals \in SourcePools(request.use_csv)
    /\ user_profile \in PredictProfiles(request)
    /\ today \in Dates
    /\ pc = "validate"
    /\ allergies = <<>>
    /\ pool = <<>>
    /\ start_date = 0
    /\ day_offset = 0
    /\ slot = 1
    /\ used_meals = NoneUsed
    /\ day_slots = NoSlots
    /\ daily_totals = ZeroTotals
    /\ day_sel = NoSlots
    /\ weekly_plan = <<>>
    /\ week_sel = <<>>
    /\ reset_log = {}
    /\ result = <<>>
    /\ diet_label = NoText
    /\ candidate_meals = <<>>
    /\ recommended_meals = <<>>
    /\ error = <<>>
    /\ calc_args = NoPayload
    /\ calc_pc = "idle"
    /\ calc_out = NoOutput
    /\ call = 0
    /\ suspended = NoFrame
    /\ DbIdle
    /\ response = <<>>

plan_state == <<allergies, pool, start_date, day_offset, slot, used_meals, day_slots,
                daily_totals, day_sel, weekly_plan, week_sel, reset_log, result>>

\* AppException.__init__: message (a text, or its words) and status_code
AppException(type, message, status_code) ==
    [type |-> type, message |-> message, status_code |-> status_code]

\* A ValidationError with the default status_code of AppException.
ValidationError_Status500(message) == AppException("ValidationError", message, 500)

\* ValidationError(message): status_code=400
ValidationError(message) == AppException("ValidationError", message, 400)

\* NotFoundError(resource, identifier): status_code=404
NotFoundError(resource, identifier) ==
    AppException("NotFoundError", <<resource, "with id", identifier, "not found">>, 404)

\* ModelNotTrainedError(): status_code=503
ModelNotTrainedError ==
    AppException("ModelNotTrainedError",
                 "Model not trained. Please train the model first using /api/diet/train endpoint.",
                 503)

\* Lines 119-120: raise ValidationError unless user_id or profile is given.
PredictValidate ==
    /\ mode = "predict"
    /\ pc = "validate"
    /\ IF request.user_id = NoId /\ ~ request.has_profile
       THEN /\ error' = <<ValidationError(<<"Either", "user_id", "or", "profile",
                                           "must", "be", "provided">>)>>
            /\ pc' = "raised_error"
       ELSE /\ error' = error
            /\ pc' = "lookup"
    /\ UNCHANGED <<calc_state, inputs, diet_label, candidate_meals, recommended_meals, response, plan_state>>

\* Lines 122-141: the profile of the stored user, or the inline profile.
PredictLookup ==
    /\ mode = "predict"
    /\ pc = "lookup"
    /\ IF request.user_id # NoId /\ request.user_id \notin DbUsers
       THEN /\ error' = <<NotFoundError("User", request.user_id)>>
            /\ pc' = "raised_error"
       ELSE /\ error' = error
            /\ pc' = "model"
    /\ UNCHANGED <<calc_state, inputs, diet_label, candidate_meals, recommended_meals, response, plan_state>>

\* Lines 144-147: predict_from_profile raises ModelNotTrainedError when no model
\* file exists, and gives the label otherwise.
PredictModel ==
    /\ mode = "predict"
    /\ pc = "model"
    /\ \E trained \in BOOLEAN :
           IF trained
           THEN /\ diet_label' \in DietLabels
                /\ error' = error
                /\ pc' = "meals"
           ELSE /\ diet_label' = diet_label
                /\ error' = <<ModelNotTrainedError>>
                /\ pc' = "raised_error"
    /\ UNCHANGED <<calc_state, inputs, candidate_meals, recommended_meals, response, plan_state>>

\* LABEL_TO_TAG.get(diet_label, diet_label)
LABEL_TO_TAG(label) ==
    CASE label = s_balanced -> s_is_healthy
      [] label \in {s_low_carb, s_low_carb_h} -> s_keto
      [] label \in {s_low_sodium, s_low_sodium_h} -> s_low_sodium
      [] label = s_high_protein_u -> s_high_protein
      [] OTHER -> label

\* PREF_MAP[desired_pref] if desired_pref in PREF_MAP else desired_pref
PREF_MAP(pref) ==
    CASE pref = s_veg -> s_vegetarian
      [] pref \in {s_low_carb, s_low_carb_h} -> s_keto
      [] pref = s_gluten_free_h -> s_gluten_free
      [] pref = s_balanced -> s_is_healthy
      [] OTHER -> pref

\* Lines 181-186: the tags matched against target_tag.
SourceTags(f) == IF f.kind \in {"list", "json", "pyrepr"} THEN f.items ELSE <<>>

\* Lines 262-267: the tags the explicit-preference filter reads; json.loads and
\* eval both reject a non-empty native list.
PrefTags(f) == IF f.kind \in {"json", "pyrepr"} THEN f.items ELSE <<>>

\* Lines 293-305: the ingredients of a recommended meal.
RecommendedIngredients(f) ==
    IF f.kind \in {"list", "json", "pyrepr"} THEN f.items ELSE <<>>

\* Lines 177-189: matched_by_tag
MatchedByTag(all, target_tag) ==
    SelectSeq(all, LAMBDA m :
        \E i \in 1..Len(SourceTags(m.dietary_tags)) :
            target_tag = Lower(Strip(SourceTags(m.dietary_tags)[i])))

\* The orders of seq a descending sort by score-with-jitter can give: i may stand
\* before j iff its jitter-free score is above that of j minus 1.
SortedByScore(seq, score, den) ==
    {[i \in 1..Len(seq) |-> seq[f[i]]] :
        f \in {g \in [1..Len(seq) -> 1..Len(seq)] :
                  /\ \A i, j \in 1..Len(seq) : i # j => g[i] # g[j]
                  /\ \A i, j \in 1..Len(seq) :
                         i < j => score[g[i]] - score[g[j]] > - den}}

\* Lines 204-210: the meals scored against calculate_macros(2000, diet_label) and
\* per_meal_cals = 2000 / 3; calories and their target are held in thirds of a
\* quarter, the macro targets in quarters.
ScoringFallback(all, label) ==
    LET macros == calculate_macros(2000 * KcalUnit, label)
        target_mac == [protein |-> 4 * macros.protein, carbs |-> 4 * macros.carbs,
                       fat |-> 4 * macros.fat]
        target_c == 4 * 2000
        den == ScoreDen(target_c, target_mac, s_balanced)
        score == [i \in 1..Len(all) |->
                     ScoreNum([all[i] EXCEPT !.calories = 3 * @], target_c, target_mac,
                              s_balanced)]
    IN  SortedByScore(all, score, den)

\* Lines 174-216: the values of meals after the sourcing and its two fallbacks.
SourcedMeals(all, label) ==
    LET target_tag == LABEL_TO_TAG(label)
        by_tag == MatchedByTag(all, target_tag)
        by_filter == IF by_tag = <<>> /\ ~ Falsy(target_tag)
                     THEN filter_meals_by_preference(all, target_tag, <<>>)
                     ELSE by_tag
    IN  IF by_filter = <<>> /\ ~ Falsy(label)
        THEN ScoringFallback(all, label)
        ELSE {by_filter}

\* The profile dictionary's preference: a stored user's profile has none.
ProfilePref(req) ==
    IF req.user_id = NoId /\ req.has_profile THEN req.profile_pref ELSE NoText

\* Lines 219-231
explicit_pref(req) == ~ Falsy(req.preference) \/ ProfilePref(req) # NoText

\* Lines 223-233
desired_pref(req, label) ==
    IF ~ Falsy(req.preference) THEN Lower(Strip(req.preference))
    ELSE IF ProfilePref(req) # NoText THEN Lower(Strip(ProfilePref(req)))
    ELSE IF ~ Falsy(label) THEN label
    ELSE NoText

\* Lines 249-252
desired_tag(req, label) == PREF_MAP(desired_pref(req, label))

\* Line 268: the test of the explicit-preference filter
PrefMatches(m, tag) ==
    \E i \in 1..Len(PrefTags(m.dietary_tags)) :
        LET t == Lower(Strip(PrefTags(m.dietary_tags)[i]))
        IN  t = Lower(Strip(tag)) \/ IsSubstring(tag, t)

\* Lines 258-273: meals after the enforcement of an explicit preference.
PrefFiltered(all, candidates, req, label) ==
    IF explicit_pref(req) /\ ~ Falsy(desired_tag(req, label))
    THEN IF SelectSeq(candidates, LAMBDA m : PrefMatches(m, desired_tag(req, label))) # <<>>
         THEN SelectSeq(candidates, LAMBDA m : PrefMatches(m, desired_tag(req, label)))
         ELSE filter_meals_by_preference(all, desired_tag(req, label), <<>>)
    ELSE candidates

\* Lines 307-309
is_verified(m, tag) ==
    /\ ~ Falsy(tag)
    /\ \E i \in 1..Len(FilterDecode(m.dietary_tags)) :
           \/ tag = FilterDecode(m.dietary_tags)[i]
           \/ IsSubstring(tag, FilterDecode(m.dietary_tags)[i])

\* Lines 311-321
RecommendedMeal(m, tag) ==
    [id          |-> m.id,
     name        |-> m.name,
     meal_type   |-> m.meal_type,
     calories    |-> m.calories,
     protein     |-> m.protein,
     carbs       |-> m.carbs,
     fat         |-> m.fat,
     ingredients |-> RecommendedIngredients(m.ingredients),
     verified    |-> is_verified(m, tag)]

\* Lines 275-324: for m in meals[:10]
RecommendedMeals(candidates, tag) ==
    [i \in 1..(IF Len(candidates) < 10 THEN Len(candidates) ELSE 10) |->
        RecommendedMeal(candidates[i], tag)]

\* Lines 146-343: the candidate meals, the preference, the recommended meals and
\* the user object the plan is generated for.
PredictMeals ==
    /\ mode = "predict"
    /\ pc = "meals"
    /\ \E sourced \in SourcedMeals(all_meals, diet_label) :
           /\ candidate_meals' = PrefFiltered(all_meals, sourced, request, diet_label)
           /\ recommended_meals' =
                  RecommendedMeals(PrefFiltered(all_meals, sourced, request, diet_label),
                                   desired_tag(request, diet_label))
    /\ user_profile' = IF request.user_id = NoId
                       THEN [user_profile EXCEPT !.dietary_preference = diet_label]
                       ELSE user_profile
    /\ pc' = "start"
    /\ UNCHANGED <<calc_state, mode, all_meals, today, request, diet_label, error, response, plan_state>>

\* The PredictResponse built at lines 347-413: daily_plan is the plan of
\* generate_daily_meal_plan, or None (<<>>) when generating it raised; the
\* response model has no weekly_plan field and request.weekly is never read.
PredictResponse(plan, raised) ==
    [dietary_preference |-> user_profile.dietary_preference,
     diet_recommendation |-> diet_label,
     recommended_meals |-> recommended_meals,
     daily_plan |-> IF raised THEN <<>> ELSE plan]

\* Lines 347-413: the except clause around the plan, and the response.
PredictRespond ==
    /\ mode = "predict"
    /\ pc \in {"done", "raised"}
    /\ response' = <<PredictResponse(result, pc = "raised")>>
    /\ pc' = "responded"
    /\ UNCHANGED <<calc_state, inputs, predict_locals, plan_state>>

-----------------------------------------------------------------------------
(* The calculators applied to a payload, as api/users.py does when a user is  *)
(* created (bmr, tdee, target calories, macros), and calculate_macros applied *)
(* to a given calorie value, as predict's scoring fallback does.              *)

Ages == {30, 60}

Heights == {150, 175}

Weights == {40, 75}

\* gender: a text, or None
Genders == {s_male, s_Male, s_female, s_none, NoText}

ActivityLevels == {"sedentary", "lightly_active", "moderately_active", "very_active",
                   "extremely_active", "Light"}

HealthGoals == {"weight_loss", "muscle_gain", "maintain", "get_fit"}

MacroPreferences == {s_keto, s_high_protein, s_balanced, s_vegan}

\* Calorie values calculate_macros is called with directly, in kcal.
DirectCalories == {20, 60, 1820, 2000}

Payloads ==
    [kind : {"payload"}, age : Ages, height : Heights, weight : Weights, gender : Genders,
     activity_level : ActivityLevels, health_goal : HealthGoals,
     dietary_preference : MacroPreferences]
    \cup [kind : {"calories"}, calories : DirectCalories,
          dietary_preference : MacroPreferences]

InitCalc ==
    /\ mode = "calc"
    /\ calc_args \in Payloads
    /\ calc_pc = IF calc_args.kind = "payload" THEN "bmr" ELSE "macros"
    /\ calc_out = IF calc_args.kind = "payload" THEN NoOutput
                  ELSE [NoOutput EXCEPT !.target_calories = calc_args.calories * KcalUnit]
    /\ call = 0
    /\ suspended = NoFrame
    /\ all_meals = <<>>
    /\ user_profile = NoPayload
    /\ today = 0
    /\ request = NoRequest
    /\ pc = "idle"
    /\ allergies = <<>>
    /\ pool = <<>>
    /\ start_date = 0
    /\ day_offset = 0
    /\ slot = 1
    /\ used_meals = NoneUsed
    /\ day_slots = NoSlots
    /\ daily_totals = ZeroTotals
    /\ day_sel = NoSlots
    /\ weekly_plan = <<>>
    /\ week_sel = <<>>
    /\ reset_log = {}
    /\ result = <<>>
    /\ diet_label = NoText
    /\ candidate_meals = <<>>
    /\ recommended_meals = <<>>
    /\ error = <<>>
    /\ DbIdle
    /\ response = <<>>

\* Everything but the state of the calculators.
not_calc == <<inputs, predict_locals, plan_state, pc, response>>

\* bmr = calculate_bmr(age, height, weight, gender); None.lower() raises
CalcBmr ==
    /\ mode = "calc"
    /\ calc_pc = "bmr"
    /\ IF calc_args.gender = NoText
       THEN /\ calc_pc' = "raised"
            /\ calc_out' = calc_out
       ELSE /\ calc_pc' = "tdee"
            /\ calc_out' = [calc_out EXCEPT !.bmr =
                   calculate_bmr(calc_args.age, calc_args.height, calc_args.weight,
                                 calc_args.gender)]
    /\ UNCHANGED <<calc_args, call, suspended, not_calc, db_state>>

\* tdee = calculate_tdee(bmr, activity_level)
CalcTdee ==
    /\ mode = "calc"
    /\ calc_pc = "tdee"
    /\ calc_out' = [calc_out EXCEPT !.tdee =
           calculate_tdee(calc_out.bmr, calc_args.activity_level)]
    /\ calc_pc' = "target"
    /\ UNCHANGED <<calc_args, call, suspended, not_calc, db_state>>

\* target_calories = calculate_target_calories(tdee, health_goal)
CalcTarget ==
    /\ mode = "calc"
    /\ calc_pc = "target"
    /\ calc_out' = [calc_out EXCEPT !.target_calories =
           calculate_target_calories(calc_out.tdee, calc_args.health_goal)]
    /\ calc_pc' = "macros"
    /\ UNCHANGED <<calc_args, call, suspended, not_calc, db_state>>

\* target_macros = calculate_macros(target_calories, dietary_preference)
CalcMacros ==
    /\ mode = "calc"
    /\ calc_pc = "macros"
    /\ calc_out' = [calc_out EXCEPT !.macros =
           calculate_macros(calc_out.target_calories, calc_args.dietary_preference)]
    /\ calc_pc' = "done"
    /\ UNCHANGED <<calc_args, call, suspended, not_calc, db_state>>

NextCalc ==
    \/ CalcBmr
    \/ CalcTdee
    \/ CalcTarget
    \/ CalcMacros

\* The calculators applied to one payload.
SpecCalc == InitCalc /\ [][NextCalc]_vars

-----------------------------------------------------------------------------
(* One call of select_best_meal, as the daily loop makes it for one slot, on *)
(* a pool given in its order.                                                 *)

\* Breakfasts at 600, 620, 621 and 610 kcal with the macros of the breakfast
\* slot of the 2400 kcal profile, and a lunch; nutrition in quarters.
SelectMeals ==
    { Meal(11, "Stew", "breakfast", 2400, 180, 240, 80, Enc("empty", <<>>), Enc("empty", <<>>)),
      Meal(12, "Curry", "breakfast", 2480, 180, 240, 80, Enc("empty", <<>>), Enc("empty", <<>>)),
      Meal(13, "Pasta", "breakfast", 2484, 180, 240, 80, Enc("empty", <<>>), Enc("empty", <<>>)),
      Meal(14, "Salad", "breakfast", 2440, 180, 240, 80, Enc("empty", <<>>), Enc("empty", <<>>)),
      Meal(15, "Wrap", "lunch", 2600, 250, 200, 80, Enc("empty", <<>>), Enc("empty", <<>>)) }

\* The pools select_best_meal is called with: up to MaxMeals meals, in order.
SelectPools ==
    UNION {[1..n -> SelectMeals] : n \in 0..MaxMeals}

\* The slots the call is made for: breakfast and lunch.
SelectSlots == {1, 2}

\* Users with a target of 2400 kcal, 180 g protein, 240 g carbs, 80 g fat.
SelectProfiles ==
    {[target_calories |-> 2400, target_protein |-> 180, target_carbs |-> 240,
      target_fat |-> 80, dietary_preference |-> p, allergies |-> Enc("empty", <<>>)] :
        p \in {<<>>, s_high_protein}}

InitSelect ==
    /\ mode = "select"
    /\ pool \in SelectPools
    /\ slot \in SelectSlots
    /\ user_profile \in SelectProfiles
    /\ pc = "start"
    /\ all_meals = <<>>
    /\ today = 0
    /\ allergies = <<>>
    /\ start_date = 0
    /\ day_offset = 0
    /\ used_meals = NoneUsed
    /\ day_slots = NoSlots
    /\ daily_totals = ZeroTotals
    /\ day_sel = NoSlots
    /\ weekly_plan = <<>>
    /\ week_sel = <<>>
    /\ reset_log = {}
    /\ result = <<>>
    /\ request = NoRequest
    /\ diet_label = NoText
    /\ candidate_meals = <<>>
    /\ recommended_meals = <<>>
    /\ error = <<>>
    /\ calc_args = NoPayload
    /\ calc_pc = "idle"
    /\ calc_out = NoOutput
    /\ call = 0
    /\ suspended = NoFrame
    /\ DbIdle
    /\ response = <<>>

\* best = select_best_meal(filtered, mtype, target_c, target_mac, preference);
\* result is <<>> for None
SelectBest ==
    /\ mode = "select"
    /\ pc = "start"
    /\ LET mtype == MealTypes[slot]
           best == select_best_meal(pool, mtype,
                                    SlotTarget(user_profile.target_calories, mtype),
                                    SlotMacros(user_profile, mtype),
                                    user_profile.dietary_preference)
       IN  IF best = {} THEN result' = <<>>
           ELSE \E sel \in best : result' = <<sel>>
    /\ pc' = "returned"
    /\ UNCHANGED <<calc_state, inputs, predict_locals, response, allergies, pool, start_date,
                   day_offset, slot, used_meals, day_slots, daily_totals, day_sel,
                   weekly_plan, week_sel, reset_log>>

NextSelect == SelectBest

\* One call of select_best_meal.
SpecSelect == InitSelect /\ [][NextSelect]_vars

-----------------------------------------------------------------------------
(* Two calls of generate_weekly_meal_plan on the one engine instance          *)
(* recommendation_service, interleaved step by step: the running call owns    *)
(* the variables of the generator, the other call's locals are suspended.     *)

\* Pools without a meal whose ingredients fail to decode.
TwoCallPools ==
    { <<Catalogue[1], Catalogue[4]>>, <<Catalogue[1], Catalogue[6]>> }

TwoCallProfiles ==
    {p \in Profiles : /\ p.allergies.kind = "empty"
                      /\ p.dietary_preference \in {<<>>, s_Vegan}}

\* The locals of a call, with its argument user_profile.
Frame ==
    [user_profile |-> user_profile, pc |-> pc, allergies |-> allergies, pool |-> pool,
     start_date |-> start_date, day_offset |-> day_offset, slot |-> slot,
     used_meals |-> used_meals, day_slots |-> day_slots, daily_totals |-> daily_totals,
     day_sel |-> day_sel, weekly_plan |-> weekly_plan, week_sel |-> week_sel,
     reset_log |-> reset_log, result |-> result]

\* The locals of a call that has not started.
StartFrame(profile) ==
    [user_profile |-> profile, pc |-> "start", allergies |-> <<>>, pool |-> <<>>,
     start_date |-> 0, day_offset |-> 0, slot |-> 1, used_meals |-> NoneUsed,
     day_slots |-> NoSlots, daily_totals |-> ZeroTotals, day_sel |-> NoSlots,
     weekly_plan |-> <<>>, week_sel |-> <<>>, reset_log |-> {}, result |-> <<>>]

InitTwoCalls ==
    /\ mode = "weekly"
    /\ all_meals \in TwoCallPools
    /\ user_profile \in TwoCallProfiles
    /\ today \in Dates
    /\ call = 1
    /\ suspended \in {StartFrame(p) : p \in TwoCallProfiles}
    /\ pc = "start"
    /\ allergies = <<>>
    /\ pool = <<>>
    /\ start_date = 0
    /\ day_offset = 0
    /\ slot = 1
    /\ used_meals = NoneUsed
    /\ day_slots = NoSlots
    /\ daily_totals = ZeroTotals
    /\ day_sel = NoSlots
    /\ weekly_plan = <<>>
    /\ week_sel = <<>>
    /\ reset_log = {}
    /\ result = <<>>
    /\ request = NoRequest
    /\ diet_label = NoText
    /\ candidate_meals = <<>>
    /\ recommended_meals = <<>>
    /\ error = <<>>
    /\ calc_args = NoPayload
    /\ calc_pc = "idle"
    /\ calc_out = NoOutput
    /\ DbIdle
    /\ response = <<>>

\* A tracker kept on the engine instance: the resumed call finds the tracker
\* of the call that ran last.
ResumedTracker_OfInstance(own, running) == running

\* used_meals is a local of the call (line 334): the resumed call finds its own.
ResumedTracker(own, running) == own

\* The other call runs on: the locals of the running call are set aside and
\* those of the other call are current again.
SwitchCall ==
    /\ call \in {1, 2}
    /\ suspended.pc \notin {"done", "raised"}
    /\ call' = 3 - call
    /\ suspended' = Frame
    /\ user_profile' = suspended.user_profile
    /\ pc' = suspended.pc
    /\ allergies' = suspended.allergies
    /\ pool' = suspended.pool
    /\ start_date' = suspended.start_date
    /\ day_offset' = suspended.day_offset
    /\ slot' = suspended.slot
    /\ used_meals' = ResumedTracker(suspended.used_meals, used_meals)
    /\ day_slots' = suspended.day_slots
    /\ daily_totals' = suspended.daily_totals
    /\ day_sel' = suspended.day_sel
    /\ weekly_plan' = suspended.weekly_plan
    /\ week_sel' = suspended.week_sel
    /\ reset_log' = suspended.reset_log
    /\ result' = suspended.result
    /\ UNCHANGED <<mode, all_meals, today, request, predict_locals, calc_args, calc_pc,
                   calc_out, db_state, response>>

NextTwoCalls ==
    \/ WeeklyStart
    \/ WeeklySlot
    \/ WeeklyDayEnd
    \/ WeeklyReturn
    \/ SwitchCall

\* Two interleaved calls of generate_weekly_meal_plan.
SpecTwoCalls == InitTwoCalls /\ [][NextTwoCalls]_vars

-----------------------------------------------------------------------------
(* The daily and the weekly generator on the same profile and the same pool   *)
(* of named meals, among them meals whose scores differ by exactly 1.         *)

\* Pools of one or two of the named meals above, in order.
AgreePools == UNION {[1..n -> SelectMeals] : n \in 1..2}

InitAgree ==
    /\ mode \in {"daily", "weekly"}
    /\ all_meals \in AgreePools
    /\ user_profile \in SelectProfiles
    /\ today \in Dates
    /\ pc = "start"
    /\ allergies = <<>>
    /\ pool = <<>>
    /\ start_date = 0
    /\ day_offset = 0
    /\ slot = 1
    /\ used_meals = NoneUsed
    /\ day_slots = NoSlots
    /\ daily_totals = ZeroTotals
    /\ day_sel = NoSlots
    /\ weekly_plan = <<>>
    /\ week_sel = <<>>
    /\ reset_log = {}
    /\ result = <<>>
    /\ request = NoRequest
    /\ diet_label = NoText
    /\ candidate_meals = <<>>
    /\ recommended_meals = <<>>
    /\ error = <<>>
    /\ calc_args = NoPayload
    /\ calc_pc = "idle"
    /\ calc_out = NoOutput
    /\ call = 0
    /\ suspended = NoFrame
    /\ DbIdle
    /\ response = <<>>

-----------------------------------------------------------------------------

Next ==
    \/ DailyStart
    \/ DailySlot
    \/ DailyReturn
    \/ WeeklyStart
    \/ WeeklySlot
    \/ WeeklyDayEnd
    \/ WeeklyReturn

Spec == Init /\ [][Next]_vars

NextPredict ==
    \/ PredictValidate
    \/ PredictLookup
    \/ PredictModel
    \/ PredictMeals
    \/ DailyStart
    \/ DailySlot
    \/ DailyReturn
    \/ PredictRespond

\* Either generator on a pool of named meals.
SpecAgree == InitAgree /\ [][Next]_vars

\* A call of the predict endpoint.
SpecPredict == InitPredict /\ [][NextPredict]_vars

-----------------------------------------------------------------------------
(* The plans the generators have produced so far *)

\* The value of `field` in slot t, zero when the slot is omitted.
FieldOf(slots, t, field) == IF t \in DOMAIN slots THEN slots[t][field] ELSE 0

\* The sum of `field` over the four slot types, each counted once.
SumOver(slots, field) ==
    FieldOf(slots, "breakfast", field) + FieldOf(slots, "lunch", field)
    + FieldOf(slots, "dinner", field) + FieldOf(slots, "snack", field)

NutritionFields == {"calories", "protein", "carbs", "fat"}

\* The plan generate_daily_meal_plan returned, with the meals it selected.
DailyReturned == mode \in DailyModes /\ pc = "done"

\* generate_weekly_meal_plan has returned weekly_plan.
WeeklyReturned == mode = "weekly" /\ pc = "done"

\* The finished days of the week, as indices of weekly_plan and week_sel.
WeekDays == IF mode = "weekly" THEN 1..Len(weekly_plan) ELSE {}

\* The meal objects a day's selections refer to.
Selected(sel) == [t \in DOMAIN sel |-> all_meals[sel[t]]]

\* P holds of every plan produced: the returned daily plan with its selected
\* meals, and every finished day of the weekly plan with its selected meals.
EveryPlan(P(_, _)) ==
    /\ DailyReturned => P(result[1], Selected(day_sel))
    /\ \A d \in WeekDays : P(weekly_plan[d], Selected(week_sel[d]))

\* The meals of type t in the filtered pool all have a non-empty name, and
\* at least two different names occur among them.
NamedVariety(t) ==
    /\ \A m \in Range(OfType(pool, t)) : Named(m.name)
    /\ \E m1, m2 \in Range(OfType(pool, t)) : m1.name # m2.name

-----------------------------------------------------------------------------
(* C1 *)

TotalsOfEntries(plan, sel) ==
    \A f \in NutritionFields : plan.daily_totals[f] = SumOver(plan.slots, f)

TotalsOfMeals(plan, sel) ==
    /\ DOMAIN sel = DOMAIN plan.slots
    /\ \A f \in NutritionFields : plan.daily_totals[f] = Round1(SumOver(sel, f))

\* C1 as stated: in every plan produced, each field of daily_totals equals the
\* sum (a value in tenths, so already rounded to one decimal) of that field over
\* the entries stored in the plan's slots.
C1_TotalsOfStoredEntries == EveryPlan(TotalsOfEntries)

\* C1 amended: in every plan produced, each field of daily_totals equals the sum
\* of that field over the meals selected for the slots present in the plan, each
\* counted once with its own unrounded value, rounded to one decimal place.
C1_TotalsOfSelectedMeals == EveryPlan(TotalsOfMeals)

\* A returned week with a day of two slots whose stored entries do not add up
\* to the day's totals.
C1_Witness ==
    /\ WeeklyReturned
    /\ \E d \in WeekDays :
           /\ Cardinality(DOMAIN weekly_plan[d].slots) >= 2
           /\ ~ TotalsOfEntries(weekly_plan[d], Selected(week_sel[d]))

-----------------------------------------------------------------------------
(* C2 *)

\* The meals of type t in the filtered pool are at least 2 and carry pairwise
\* distinct database ids.
DistinctIds(t) ==
    /\ Cardinality(Range(OfType(pool, t))) >= 2
    /\ \A m1, m2 \in Range(OfType(pool, t)) :
           m1.id # NoId /\ (m1 # m2 => m1.id # m2.id)

-----------------------------------------------------------------------------
(* C3 *)

\* C3 as stated: when the filtered pool holds at least 2 meals of a slot type
\* with distinct names, no meal is assigned to that slot type on two consecutive
\* days, the day after a tracker reset included.  (Stated for pools in which
\* every meal of the type has a name, so that a nameless meal, which the
\* tracker never records, is not what refutes it.)
C3_NoConsecutiveRepeat ==
    \A t \in MealTypeSet :
        NamedVariety(t) =>
            \A d \in WeekDays :
                (d + 1) \in WeekDays => week_sel[d][t] # week_sel[d + 1][t]

\* C3 amended: when every meal of a slot type in the filtered pool has a
\* non-empty name and at least 2 different names occur, the same name is
\* assigned to that slot type on days d and d+1 only if the tracker of that
\* type was reset on day d+1.
C3_RepeatOnlyAfterReset ==
    \A t \in MealTypeSet :
        NamedVariety(t) =>
            \A d \in WeekDays :
                ((d + 1) \in WeekDays
                 /\ Selected(week_sel[d])[t].name = Selected(week_sel[d + 1])[t].name)
                    => <<t, d + 1>> \in reset_log

\* A returned week in which a tracker with two names to choose from was reset.
C3_Witness ==
    /\ WeeklyReturned
    /\ \E t \in MealTypeSet :
           NamedVariety(t) /\ \E d \in WeekDays : <<t, d>> \in reset_log

-----------------------------------------------------------------------------
(* C4 *)

-----------------------------------------------------------------------------
(* C5, C6: the filter, once `pool` has been computed *)

Filtered == mode \in {"daily", "weekly"} /\ pc # "start"

\* C5: with no allergies, a meal passes the filter iff the preference is empty,
\* "none" or "high-protein", or the meal's tags contain the preference compared
\* case-insensitively.
C5_PreferenceCaseInsensitive ==
    (Filtered /\ allergies = <<>>) =>
        \A m \in Range(all_meals) :
            m \in Range(pool) <=>
                \/ user_profile.dietary_preference \in {<<>>, s_none, s_high_protein}
                \/ InSeq(Lower(user_profile.dietary_preference),
                         FilterDecode(m.dietary_tags))

\* Some allergy term is a case-insensitive substring of some ingredient of m.
AllergenIn(m, allergy_terms) ==
    \E i \in 1..Len(allergy_terms) :
        \E j \in 1..Len(FilterDecode(m.ingredients)) :
            IsSubstring(Lower(allergy_terms[i]), FilterDecode(m.ingredients)[j])

\* C6: the filter excludes a meal whenever an allergy term is a case-insensitive
\* substring of one of its ingredients, and the allergy test keeps every meal
\* no ingredient of which contains an allergy term.
C6_AllergySubstring ==
    Filtered =>
        \A m \in Range(all_meals) :
            /\ AllergenIn(m, allergies) => m \notin Range(pool)
            /\ (~ AllergenIn(m, allergies)
                /\ PreferenceKeeps(FilterDecode(m.dietary_tags),
                                   user_profile.dietary_preference))
               => m \in Range(pool)

-----------------------------------------------------------------------------
(* C7 *)

\* C7: the generators never fail because of a meal whose dietary_tags or
\* ingredients string is not a validly encoded list.
C7_NeverFails == mode \in {"daily", "weekly"} => pc # "raised"

-----------------------------------------------------------------------------
(* C8 *)

SlotsAsUnfilteredPool(plan, sel) ==
    /\ \A t \in MealTypeSet : t \in DOMAIN plan.slots <=> OfType(all_meals, t) # <<>>
    /\ all_meals = <<>> => (plan.slots = NoSlots /\ plan.daily_totals = ZeroTotals)

\* C8: in every plan produced, a slot type is present iff the unfiltered pool
\* has a meal of that type; an empty pool gives a plan with no slots and zero
\* totals, and never an exception.
C8_SlotPresentIffAnyMeal ==
    /\ EveryPlan(SlotsAsUnfilteredPool)
    /\ all_meals = <<>> => pc # "raised"

\* A returned daily plan with a slot filled from the unfiltered pool because the
\* filtered pool had no meal of that type, and with another slot omitted.
C8_Witness ==
    /\ DailyReturned
    /\ \E t \in DOMAIN result[1].slots : OfType(pool, t) = <<>>
    /\ \E t \in MealTypeSet : t \notin DOMAIN result[1].slots

-----------------------------------------------------------------------------
(* C9 *)

SlotsHoldTheirType(plan, sel) ==
    \A t \in DOMAIN plan.slots : plan.slots[t].meal_type = t

\* C9: in every plan produced, the entry stored under slot key t has meal_type t.
C9_MealTypeIsSlot == EveryPlan(SlotsHoldTheirType)

\* A returned week with a slot filled after a tracker reset and, on the same day,
\* a slot filled from the unfiltered fallback.
C9_Witness ==
    /\ WeeklyReturned
    /\ \E d \in WeekDays :
           /\ \E t \in DOMAIN weekly_plan[d].slots :
                  <<t, d>> \in reset_log /\ OfType(pool, t) # <<>>
           /\ \E t \in DOMAIN weekly_plan[d].slots : OfType(pool, t) = <<>>

-----------------------------------------------------------------------------
(* C10 *)

\* C10: a predict call with weekly=True and an inline profile returns a response
\* whose weekly_plan is present with exactly 7 entries and whose daily_plan is
\* None.
C10_WeeklyFlagGivesWeek ==
    (mode = "predict" /\ pc = "responded" /\ request.weekly
     /\ request.user_id = NoId /\ request.has_profile) =>
        /\ "weekly_plan" \in DOMAIN response[1]
        /\ Len(response[1].weekly_plan) = 7
        /\ response[1].daily_plan = <<>>

-----------------------------------------------------------------------------
(* C11 *)

\* predict has returned its response.
Responded == mode = "predict" /\ pc = "responded"

\* C11: when the request carries an explicit dietary preference
\* (request.preference, or a string preference in the profile), every meal of
\* the returned recommended_meals has verified = True.
C11_ExplicitPreferenceVerified ==
    (Responded /\ explicit_pref(request)) =>
        \A i \in 1..Len(response[1].recommended_meals) :
            response[1].recommended_meals[i].verified

-----------------------------------------------------------------------------
(* C12 *)

\* C12: for a profile whose allergies are a native list, the generators filter
\* the pool with the same allergy terms, and so to the same filtered pool, as for
\* the profile whose allergies are the JSON text of that list.
C12_ListAllergiesAsJson ==
    (Filtered /\ user_profile.allergies.kind = "list") =>
        /\ allergies = ParseAllergies(Enc("json", user_profile.allergies.items))
        /\ pool = filter_meals_by_preference(
                      all_meals, user_profile.dietary_preference,
                      ParseAllergies(Enc("json", user_profile.allergies.items)))

-----------------------------------------------------------------------------
(* C13 *)

\* The calculators have been applied to the whole payload.
CalcDone == mode = "calc" /\ calc_pc = "done"

\* age 30, 175 cm, 75 kg, male, moderately_active, maintain, balanced
C13_Profile ==
    /\ calc_args.kind = "payload"
    /\ calc_args.age = 30
    /\ calc_args.height = 175
    /\ calc_args.weight = 75
    /\ calc_args.gender = s_male
    /\ calc_args.activity_level = "moderately_active"
    /\ calc_args.health_goal = "maintain"
    /\ calc_args.dietary_preference = s_balanced

\* bmr 1698.75 in quarters; tdee and target 2633.0625 in 1/4000 kcal
C13_Energy ==
    /\ calc_out.bmr = 6795
    /\ calc_out.tdee = 10532250
    /\ calc_out.target_calories = 10532250

\* C13 (as computed): for the profile {30, 175 cm, 75 kg, male,
\* moderately_active, maintain, balanced} calculate_bmr returns 1698.75,
\* calculate_tdee and calculate_target_calories return 2633.0625, and
\* calculate_macros returns protein 197 g, carbs 263 g, fat 88 g.
C13_MacrosOfProfile ==
    (CalcDone /\ C13_Profile) =>
        /\ C13_Energy
        /\ calc_out.macros = [protein |-> 197, carbs |-> 263, fat |-> 88]

\* C13 (as stated): the same, with protein 198 g.
C13_Protein198 ==
    (CalcDone /\ C13_Profile) =>
        /\ C13_Energy
        /\ calc_out.macros = [protein |-> 198, carbs |-> 263, fat |-> 88]

C13_Witness == CalcDone /\ C13_Profile

-----------------------------------------------------------------------------
(* C14 *)

\* calculate_target_calories has returned.
TargetComputed ==
    mode = "calc" /\ calc_args.kind = "payload" /\ calc_pc \in {"macros", "done"}

\* C14: calculate_target_calories(tdee, goal) is max(1200, tdee - 500) for
\* weight_loss, tdee + 300 for muscle_gain and tdee for every other goal; for
\* weight_loss the result is never below 1200.
C14_TargetByGoal ==
    TargetComputed =>
        LET tdee == calc_out.tdee
            target == calc_out.target_calories
            goal == calc_args.health_goal
        IN  /\ goal = "weight_loss" =>
                   /\ target >= 1200 * KcalUnit
                   /\ target >= tdee - 500 * KcalUnit
                   /\ target \in {1200 * KcalUnit, tdee - 500 * KcalUnit}
            /\ goal = "muscle_gain" => target = tdee + 300 * KcalUnit
            /\ goal \notin {"weight_loss", "muscle_gain"} => target = tdee

\* weight_loss with tdee - 500 below 1200: the floor decides
C14_Witness ==
    /\ TargetComputed
    /\ calc_args.health_goal = "weight_loss"
    /\ calc_out.tdee - 500 * KcalUnit < 1200 * KcalUnit
    /\ calc_out.target_calories = 1200 * KcalUnit

-----------------------------------------------------------------------------
(* C15 *)

\* C15: with string arguments no calculator raises, and an unknown string
\* takes the default branch: an activity level outside the five keys gives
\* multiplier 1.2, an unknown goal gives tdee, a preference other than 'keto'
\* and 'high-protein' gives ratios 0.3/0.4/0.3, and a gender other than
\* 'male' (in any case) gives the -161 branch.
C15_UnknownStringsDefault ==
    (mode = "calc" /\ calc_args.kind = "payload" /\ calc_args.gender # NoText) =>
        /\ calc_pc # "raised"
        /\ (calc_out.bmr # NotYet /\ calc_args.gender \notin {s_male, s_Male}) =>
               calc_out.bmr = 40 * calc_args.weight + 25 * calc_args.height
                              - 20 * calc_args.age - 644
        /\ (calc_out.tdee # NotYet /\ calc_args.activity_level = "Light") =>
               calc_out.tdee = calc_out.bmr * 1200
        /\ (calc_out.target_calories # NotYet /\ calc_args.health_goal = "get_fit") =>
               calc_out.target_calories = calc_out.tdee
        /\ (calc_pc = "done" /\ calc_args.dietary_preference \in {s_balanced, s_vegan}) =>
               /\ calc_out.macros.protein =
                      RoundHalfEven(calc_out.target_calories * 3, 40 * KcalUnit)
               /\ calc_out.macros.carbs =
                      RoundHalfEven(calc_out.target_calories * 4, 40 * KcalUnit)
               /\ calc_out.macros.fat =
                      RoundHalfEven(calc_out.target_calories * 3, 90 * KcalUnit)

\* every argument an unknown string, all four calculators applied
C15_Witness ==
    /\ CalcDone
    /\ calc_args.kind = "payload"
    /\ calc_args.gender = s_none
    /\ calc_args.activity_level = "Light"
    /\ calc_args.health_goal = "get_fit"
    /\ calc_args.dietary_preference = s_vegan

-----------------------------------------------------------------------------
(* C16 *)

\* g is num / den rounded to a nearest whole number
Nearest(g, num, den) == 2 * g * den - 2 * num \in (0 - den)..den

\* C16: calculate_macros(c, pref) returns c*rp/4, c*rc/4 and c*rf/9, each
\* rounded to the nearest whole gram, with (rp, rc, rf) = (0.3, 0.1, 0.6) for
\* keto, (0.4, 0.3, 0.3) for high-protein and (0.3, 0.4, 0.3) otherwise; keto
\* with c = 2000 gives protein 150, carbs 50, fat 133.
C16_MacrosByRatio ==
    CalcDone =>
        LET c == calc_out.target_calories
            pref == calc_args.dietary_preference
            rp == IF pref = s_high_protein THEN 4 ELSE 3
            rc == IF pref = s_keto THEN 1 ELSE IF pref = s_high_protein THEN 3 ELSE 4
            rf == IF pref = s_keto THEN 6 ELSE 3
        IN  /\ Nearest(calc_out.macros.protein, c * rp, 10 * 4 * KcalUnit)
            /\ Nearest(calc_out.macros.carbs, c * rc, 10 * 4 * KcalUnit)
            /\ Nearest(calc_out.macros.fat, c * rf, 10 * 9 * KcalUnit)
            /\ (calc_args.kind = "calories" /\ calc_args.calories = 2000 /\ pref = s_keto) =>
                   calc_out.macros = [protein |-> 150, carbs |-> 50, fat |-> 133]

C16_Witness ==
    /\ CalcDone
    /\ calc_args.kind = "calories"
    /\ calc_args.calories = 2000
    /\ calc_args.dietary_preference = s_keto
    /\ calc_out.macros.fat = 133

-----------------------------------------------------------------------------
(* C17 *)

\* The bonus inside the jitter-free score score_meal gives a meal of the pool
\* for its slot: macro_score less max(0, 50 - macro_penalty * 50).
BonusInScore(meal) ==
    LET target_mac == SlotMacros(user_profile, meal.meal_type)
        pref == user_profile.dietary_preference
        den == MacroDen(target_mac, pref)
    IN  (MacroNum(meal, target_mac, pref)
         - Max(0, 50 * den - 50 * MacroDev(meal, target_mac, pref))) \div den

\* 4 * protein / max(1, calories) >= pct / 100, for a meal in quarters
ProteinPctAtLeast(meal, pct) ==
    IF meal.calories >= 4 THEN 400 * meal.protein >= pct * meal.calories
    ELSE 100 * meal.protein >= pct

\* C17: the protein-density bonus of score_meal is 20 under 'high-protein' when
\* 4 * protein / max(1, calories) >= 0.35, 10 when that ratio is in
\* [0.30, 0.35), and 0 otherwise and under every other preference; under
\* 'high-protein' a meal at or above 0.35 gets exactly 20 more than a meal
\* below 0.30.
C17_ProteinBonus ==
    Filtered =>
        /\ \A i \in 1..Len(pool) :
               BonusInScore(pool[i]) =
                   IF user_profile.dietary_preference # s_high_protein THEN 0
                   ELSE IF ProteinPctAtLeast(pool[i], 35) THEN 20
                   ELSE IF ProteinPctAtLeast(pool[i], 30) THEN 10
                   ELSE 0
        /\ user_profile.dietary_preference = s_high_protein =>
               \A i, j \in 1..Len(pool) :
                   (ProteinPctAtLeast(pool[i], 35) /\ ~ProteinPctAtLeast(pool[j], 30)) =>
                       BonusInScore(pool[i]) = BonusInScore(pool[j]) + 20

\* a 'high-protein' plan whose scored pool holds a meal at or above 0.35, one
\* in [0.30, 0.35) and one below 0.30
C17_Witness ==
    /\ DailyReturned
    /\ user_profile.dietary_preference = s_high_protein
    /\ \E i, j, k \in 1..Len(pool) :
           /\ ProteinPctAtLeast(pool[i], 35)
           /\ ProteinPctAtLeast(pool[j], 30) /\ ~ProteinPctAtLeast(pool[j], 35)
           /\ ~ProteinPctAtLeast(pool[k], 30)

-----------------------------------------------------------------------------
(* C18 *)

\* select_best_meal has returned.
SelectReturned == mode = "select" /\ pc = "returned"

\* The candidates of the requested type, in the order of the pool.
SelectCandidates == OfType(pool, MealTypes[slot])

\* The jitter-free score of a candidate over that of another, less margin
\* score points, times the common denominator.
ScoreLead(c, o, margin) ==
    LET mtype == MealTypes[slot]
        target_c == SlotTarget(user_profile.target_calories, mtype)
        target_mac == SlotMacros(user_profile, mtype)
        pref == user_profile.dietary_preference
    IN  ScoreNum(c, target_c, target_mac, pref) - ScoreNum(o, target_c, target_mac, pref)
        - margin * ScoreDen(target_c, target_mac, pref)

\* C18 (as amended): if the jitter-free score of one candidate of the requested
\* type exceeds that of every other candidate of the type by more than 1, that
\* candidate is returned for every choice of jitter values.
C18_LeadAboveOneDecides ==
    SelectReturned =>
        \A i \in 1..Len(SelectCandidates) :
            (\A j \in 1..Len(SelectCandidates) \ {i} :
                 ScoreLead(SelectCandidates[i], SelectCandidates[j], 1) > 0)
            => result = <<SelectCandidates[i]>>

\* C18 (as stated): the same for a lead of at least 1.
C18_LeadOfOneDecides ==
    SelectReturned =>
        \A i \in 1..Len(SelectCandidates) :
            (\A j \in 1..Len(SelectCandidates) \ {i} :
                 ScoreLead(SelectCandidates[i], SelectCandidates[j], 1) >= 0)
            => result = <<SelectCandidates[i]>>

\* a candidate that leads every other by more than 1 and less than 2, placed
\* after another candidate, has been returned
C18_Witness ==
    /\ SelectReturned
    /\ \E i \in 2..Len(SelectCandidates) :
           /\ \A j \in 1..Len(SelectCandidates) \ {i} :
                  /\ ScoreLead(SelectCandidates[i], SelectCandidates[j], 1) > 0
                  /\ ScoreLead(SelectCandidates[i], SelectCandidates[j], 2) < 0
           /\ result = <<SelectCandidates[i]>>

-----------------------------------------------------------------------------
(* C19 *)

\* The names of the meals a call has selected so far for a slot type.
SelectedNames(frame, mtype) ==
    {all_meals[frame.week_sel[d][mtype]].name :
        d \in {k \in 1..Len(frame.week_sel) : mtype \in DOMAIN frame.week_sel[k]}}
    \cup (IF mtype \in DOMAIN frame.day_sel
          THEN {all_meals[frame.day_sel[mtype]].name} ELSE {})

\* The tracker of a call is empty when its first slot is about to be filled,
\* and holds only names the call itself has selected.
TrackerOwn(frame) ==
    /\ (frame.pc = "slots" /\ frame.day_offset = 0 /\ frame.slot = 1) =>
           frame.used_meals = NoneUsed
    /\ \A mtype \in MealTypeSet :
           frame.used_meals[mtype] \subseteq SelectedNames(frame, mtype)

\* C19: for two calls of generate_weekly_meal_plan on the same engine instance,
\* interleaved step by step or run one after the other, each call's usage
\* tracker starts empty for all four slot types and only ever contains names
\* selected by that same call.
C19_TrackerLocalToCall ==
    call \in {1, 2} => TrackerOwn(Frame) /\ TrackerOwn(suspended)

\* both calls are inside their loops and have marked different names
C19_Witness ==
    /\ call \in {1, 2}
    /\ pc = "slots"
    /\ suspended.pc = "slots"
    /\ used_meals["breakfast"] # {}
    /\ suspended.used_meals["breakfast"] # {}
    /\ used_meals # suspended.used_meals

-----------------------------------------------------------------------------
(* C20 *)

\* A request with neither user_id nor profile.
NoParams == mode = "predict" /\ request.user_id = NoId /\ ~ request.has_profile

\* C20: a predict request with neither user_id nor profile raises
\* ValidationError with status_code 400 and a message naming user_id or
\* profile, before the model, the meal source or the plan generator is used.
C20_NoParamsValidationError ==
    NoParams =>
        /\ pc \in {"validate", "raised_error"}
        /\ pc = "raised_error" =>
               /\ Len(error) = 1
               /\ error[1].type = "ValidationError"
               /\ error[1].status_code = 400
               /\ \E w \in Range(error[1].message) : w \in {"user_id", "profile"}
        /\ diet_label = NoText
        /\ candidate_meals = <<>>
        /\ recommended_meals = <<>>
        /\ pool = <<>>
        /\ day_slots = NoSlots
        /\ result = <<>>
        /\ response = <<>>

C20_Witness == NoParams /\ pc = "raised_error" /\ error # <<>>

-----------------------------------------------------------------------------
(* C22 *)

\* The sum of the four slot budgets of a daily target, in quarters.
SlotBudgetSum(target) ==
    SlotTarget(target, "breakfast") + SlotTarget(target, "lunch")
    + SlotTarget(target, "dinner") + SlotTarget(target, "snack")

-----------------------------------------------------------------------------
(* C23 *)

\* C23: in calculate_macros the three ratios protein + carbs + fat sum to
\* exactly 1 in every branch (keto, high-protein, default).
C23_MacroRatiosClose ==
    CalcDone =>
        LET ratios == MacroRatios(calc_args.dietary_preference)
        IN  ratios.protein + ratios.carbs + ratios.fat = 10

\* the keto branch has been taken for a payload
C23_Witness ==
    /\ CalcDone
    /\ calc_args.kind = "payload"
    /\ calc_args.dietary_preference = s_keto
    /\ calc_out.macros.protein # NotYet

-----------------------------------------------------------------------------
(* C24 *)

\* generate_weekly_meal_plan is inside its loops or has left them.
InWeek == mode = "weekly" /\ pc # "start"

\* The meals of type t in the filtered pool have pairwise distinct non-empty
\* names, and there is at least one.
DistinctNamed(t) ==
    LET typed == OfType(pool, t)
    IN  /\ typed # <<>>
        /\ \A i \in 1..Len(typed) : Named(typed[i].name)
        /\ \A i, j \in 1..Len(typed) : i # j => typed[i].name # typed[j].name

\* The days on which slot type t has been filled so far: the finished days and
\* the current day once its slot is filled.
FilledDays(t) ==
    {d \in 1..Len(week_sel) : t \in DOMAIN week_sel[d]}
    \cup (IF t \in DOMAIN day_sel THEN {Len(week_sel) + 1} ELSE {})

\* The name assigned to slot type t on a filled day.
AssignedName(t, d) ==
    IF d <= Len(week_sel) THEN all_meals[week_sel[d][t]].name
    ELSE all_meals[day_sel[t]].name

-----------------------------------------------------------------------------
(* C25 *)

\* C25: a step of generate_weekly_meal_plan changes the tracker of at most the
\* slot type being filled: clearing the tracker of one type leaves the three
\* others unchanged, and selecting a meal for type t only adds a name to the
\* tracker of t.
C25_TrackerChangeIsLocal ==
    [][InWeek =>
          \A t \in MealTypeSet :
              used_meals'[t] # used_meals[t] =>
                  /\ pc = "slots"
                  /\ slot <= Len(MealTypes)
                  /\ t = MealTypes[slot]
                  /\ \/ /\ used_meals[t] \subseteq used_meals'[t]
                        /\ Cardinality(used_meals'[t] \ used_meals[t]) = 1
                     \/ /\ <<t, day_offset + 1>> \in reset_log'
                        /\ Cardinality(used_meals'[t]) <= 1]_vars

\* the tracker of one type has been cleared while another type's tracker holds
\* a name
C25_Witness ==
    /\ InWeek
    /\ \E t1, t2 \in MealTypeSet :
           /\ t1 # t2
           /\ \E d \in 1..Days : <<t1, d>> \in reset_log
           /\ used_meals[t2] # {}
           /\ \A d \in 1..Days : <<t2, d>> \notin reset_log

-----------------------------------------------------------------------------
(* C26 *)

\* generate_daily_meal_plan is inside its loop or has returned.
InDay == mode = "daily" /\ pc # "start"

\* The meal passes the preference/allergy filter of the call.
PassesFilter(m) == FilterKeeps(m, user_profile.dietary_preference, allergies)

\* C26: in a plan of generate_daily_meal_plan a slot holds a meal that fails
\* the preference/allergy filter only if the filtered pool contains no meal of
\* that slot type; whenever the filtered pool has a meal of the type, the
\* assigned meal is a member of the filtered pool.
C26_FallbackOnlyWhenTypeMissing ==
    InDay =>
        \A t \in DOMAIN day_sel :
            LET m == all_meals[day_sel[t]]
            IN  /\ ~ PassesFilter(m) => OfType(pool, t) = <<>>
                /\ OfType(pool, t) # <<>> => m \in Range(pool) /\ PassesFilter(m)

\* a returned plan with one slot filled from the filtered pool and one slot
\* filled by a meal that fails the filter
C26_Witness ==
    /\ DailyReturned
    /\ mode = "daily"
    /\ \E t1, t2 \in DOMAIN day_sel :
           /\ all_meals[day_sel[t1]] \in Range(pool)
           /\ ~ PassesFilter(all_meals[day_sel[t2]])
           /\ OfType(all_meals, t1) # OfType(pool, t1)

-----------------------------------------------------------------------------
(* C27 *)

\* The weekly loop is about to score the candidates of a slot.
AboutToScore ==
    /\ mode = "weekly"
    /\ pc = "slots"
    /\ day_offset < Days
    /\ slot <= Len(MealTypes)

-----------------------------------------------------------------------------
(* C28 *)

\* The day of the last reset of the tracker of type t, or day 1.
LastReset(t) ==
    LET days == {d \in 1..Days : <<t, d>> \in reset_log}
    IN  IF days = {} THEN 1 ELSE CHOOSE d \in days : \A e \in days : e <= d

\* The meal assigned to slot type t on a filled day.
AssignedMeal(t, d) ==
    IF d <= Len(week_sel) THEN all_meals[week_sel[d][t]] ELSE all_meals[day_sel[t]]

\* C28: a selected meal whose name is missing or empty is never recorded in the
\* usage tracker, so it stays a candidate for its slot type on every later day,
\* and when it is in the filtered pool the tracker of its type is never reset;
\* the tracker of a slot type only contains non-empty names of meals of that
\* type selected since its last reset.  (The last conjunct is read off the
\* plan under construction, which a call that has raised does not extend.)
C28_NamelessNeverTracked ==
    InWeek =>
        \A t \in MealTypeSet :
            /\ \A d \in FilledDays(t) :
                   ~ Named(AssignedName(t, d)) =>
                       /\ AssignedName(t, d) \notin used_meals[t]
                       /\ AssignedMeal(t, d) \in Range(pool) =>
                              \A r \in 1..Days : <<t, r>> \notin reset_log
                       /\ (AboutToScore /\ MealTypes[slot] = t) =>
                              AssignedMeal(t, d) \in
                                  Range(Available(all_meals, pool, t, used_meals[t]))
            /\ \A n \in used_meals[t] : Named(n)
            /\ pc # "raised" =>
                   \A n \in used_meals[t] :
                       \E d \in FilledDays(t) :
                           /\ d >= LastReset(t)
                           /\ AssignedName(t, d) = n
                           /\ AssignedMeal(t, d).meal_type = t

\* a returned week in which a meal without a name, member of the filtered
\* pool next to a named meal of its type, was assigned on the first and on the
\* last day
C28_Witness ==
    /\ WeeklyReturned
    /\ \E t \in MealTypeSet :
           /\ {1, Days} \subseteq FilledDays(t)
           /\ ~ Named(AssignedName(t, 1))
           /\ AssignedMeal(t, 1) \in Range(pool)
           /\ AssignedMeal(t, Days) = AssignedMeal(t, 1)
           /\ \E m \in Range(OfType(pool, t)) : Named(m.name)

-----------------------------------------------------------------------------
(* C30 *)

\* Slot type t of day 1 (of the one day of a daily plan) has been filled.
DayOneFilled(t) ==
    \/ mode = "daily" /\ t \in DOMAIN day_sel
    \/ mode = "weekly" /\ 1 \in FilledDays(t)

\* The meal assigned to slot type t on day 1.
DayOneMeal(t) ==
    IF mode = "daily" THEN all_meals[day_sel[t]] ELSE AssignedMeal(t, 1)

\* The jitter-free score of c for slot type t over that of o, less margin
\* score points, times the common denominator.
LeadFor(t, c, o, margin) ==
    LET target_c == SlotTarget(user_profile.target_calories, t)
        target_mac == SlotMacros(user_profile, t)
        pref == user_profile.dietary_preference
    IN  ScoreNum(c, target_c, target_mac, pref) - ScoreNum(o, target_c, target_mac, pref)
        - margin * ScoreDen(target_c, target_mac, pref)

\* On day 1 the weekly loop scores the candidates the daily loop scores.
SameCandidatesOnDayOne ==
    (AboutToScore /\ day_offset = 0 /\ OfType(pool, MealTypes[slot]) # <<>>) =>
        /\ used_meals[MealTypes[slot]] = {}
        /\ Available(all_meals, pool, MealTypes[slot], used_meals[MealTypes[slot]])
           = OfType(pool, MealTypes[slot])

-----------------------------------------------------------------------------
(* seed_meals_from_csv, run again and again on one CSV file with one         *)
(* session.                                                                   *)

\* No plan, predict or calculator call is in progress.
EngineIdle ==
    /\ all_meals = <<>>
    /\ user_profile = NoPayload
    /\ today = 0
    /\ request = NoRequest
    /\ pc = "idle"
    /\ allergies = <<>>
    /\ pool = <<>>
    /\ start_date = 0
    /\ day_offset = 0
    /\ slot = 1
    /\ used_meals = NoneUsed
    /\ day_slots = NoSlots
    /\ daily_totals = ZeroTotals
    /\ day_sel = NoSlots
    /\ weekly_plan = <<>>
    /\ week_sel = <<>>
    /\ reset_log = {}
    /\ result = <<>>
    /\ diet_label = NoText
    /\ candidate_meals = <<>>
    /\ recommended_meals = <<>>
    /\ error = <<>>
    /\ calc_args = NoPayload
    /\ calc_pc = "idle"
    /\ calc_out = NoOutput
    /\ call = 0
    /\ suspended = NoFrame
    /\ response = <<>>

\* The name cells of a CSV row, as character tuples; read_csv gives NaN for the
\* empty cell.
SeedCells == {<<>>, <<" ">>, <<"a">>, <<" ", "a">>, <<"a", " ">>, <<"b">>}

\* The longest CSV file.
MaxCsvRows == 3

\* How often seed_meals_from_csv is run.
MaxSeedRuns == 3

BreakfastWords ==
    {<<"p","a","n","c","a","k","e">>,
     <<"o","m","e","l","e","t","t","e">>,
     <<"o","a","t","m","e","a","l">>,
     <<"y","o","g","u","r","t">>,
     <<"b","r","e","a","k","f","a","s","t">>}

LunchWords ==
    {<<"s","a","l","a","d">>,
     <<"s","a","n","d","w","i","c","h">>,
     <<"w","r","a","p">>,
     <<"b","o","w","l">>,
     <<"t","o","f","u">>,
     <<"q","u","i","n","o","a">>}

DinnerWords ==
    {<<"s","t","e","w">>,
     <<"c","u","r","r","y">>,
     <<"s","t","e","a","k">>,
     <<"s","a","l","m","o","n">>,
     <<"d","i","n","n","e","r">>,
     <<"p","i","z","z","a">>,
     <<"p","a","s","t","a">>}

SnackWords ==
    {<<"s","n","a","c","k">>,
     <<"c","h","i","p","s">>,
     <<"n","u","t","s">>,
     <<"h","u","m","m","u","s">>,
     <<"e","d","a","m","a","m","e">>,
     <<"f","r","u","i","t">>}

\* infer_meal_type(name): the first list with a word found in name.lower(), else "lunch"
infer_meal_type(name) ==
    LET n == Lower(name)
    IN  IF \E k \in BreakfastWords : IsSubstring(k, n) THEN "breakfast"
        ELSE IF \E k \in LunchWords : IsSubstring(k, n) THEN "lunch"
        ELSE IF \E k \in DinnerWords : IsSubstring(k, n) THEN "dinner"
        ELSE IF \E k \in SnackWords : IsSubstring(k, n) THEN "snack"
        ELSE "lunch"

\* One row of parse_meals_csv, as far as name and meal_type go:
\* name = str(name).strip(), meal_type = infer_meal_type(name)
ParsedRow(cell) ==
    LET name == Strip(cell)
    IN  [name |-> name, meal_type |-> infer_meal_type(name)]

\* parse_meals_csv: a row without a name is skipped.
RECURSIVE parse_meals_csv(_)
parse_meals_csv(rows) ==
    IF rows = <<>> THEN <<>>
    ELSE IF Head(rows) = <<>> THEN parse_meals_csv(Tail(rows))
    ELSE <<ParsedRow(Head(rows))>> \o parse_meals_csv(Tail(rows))

\* A row of table meals, as far as id, name and meal_type go. Field by is not a
\* column: it records who inserted the row, "seed" for seed_meals_from_csv and
\* "init_db" for a row that was there before.
MealRow(id, name, mtype, by) == [id |-> id, name |-> name, meal_type |-> mtype, by |-> by]

\* The tables seeding can find: empty, or rows put there earlier; column name is
\* not unique.
SeedTables ==
    { <<>>,
      <<MealRow(1, <<"a">>, "lunch", "init_db")>>,
      <<MealRow(1, <<"b">>, "lunch", "init_db")>>,
      <<MealRow(1, <<"a">>, "lunch", "init_db"), MealRow(2, <<"a">>, "dinner", "init_db")>> }

\* What a query through the session sees: the committed rows and, the session
\* flushing before every query (autoflush), the rows it has added.
VisibleMeals == meals_table \o session_new

\* A session that does not flush before a query.
ExistingMeal_CommittedOnly(name) ==
    \E k \in 1..Len(meals_table) : meals_table[k].name = name

\* existing = session.query(models.Meal).filter(models.Meal.name == item["name"]).first()
ExistingMeal(name) ==
    \E k \in 1..Len(VisibleMeals) : VisibleMeals[k].name = name

InitSeed ==
    /\ mode = "seed"
    /\ EngineIdle
    /\ csv_file \in UNION {[1..n -> SeedCells] : n \in 0..MaxCsvRows}
    /\ meals_table \in SeedTables
    /\ users_table = <<>>
    /\ meal_plans_table = <<>>
    /\ session_new = <<>>
    /\ seed = [pc |-> "start"]
    /\ seed_runs = <<>>
    /\ endpoint = NoEndpoint

seed_frame == <<mode, all_meals, user_profile, today, request, pc, plan_state,
                predict_locals, calc_args, calc_pc, calc_out, call, suspended,
                response, csv_file, users_table, meal_plans_table, endpoint>>

\* A call of seed_meals_from_csv: parsed = parse_meals_csv(csv_path); added = 0
SeedStart ==
    /\ mode = "seed"
    /\ seed.pc \in {"start", "returned"}
    /\ Len(seed_runs) < MaxSeedRuns
    /\ seed' = [pc |-> "loop", parsed |-> parse_meals_csv(csv_file), i |-> 1, added |-> 0]
    /\ UNCHANGED <<seed_frame, meals_table, session_new, seed_runs>>

\* One iteration of "for item in parsed".
SeedItem ==
    /\ mode = "seed"
    /\ seed.pc = "loop"
    /\ seed.i <= Len(seed.parsed)
    /\ LET item == seed.parsed[seed.i]
       IN  IF ExistingMeal(item.name)
           THEN /\ seed' = [seed EXCEPT !.i = @ + 1]
                /\ UNCHANGED session_new
           ELSE /\ session_new' = Append(session_new,
                        MealRow(Len(VisibleMeals) + 1, item.name, item.meal_type, "seed"))
                /\ seed' = [seed EXCEPT !.i = @ + 1, !.added = @ + 1]
    /\ UNCHANGED <<seed_frame, meals_table, seed_runs>>

\* After the loop: "if added: session.commit()", then "return added". seed_runs
\* keeps the value returned and session.query(models.Meal).count() after the run.
SeedReturn ==
    /\ mode = "seed"
    /\ seed.pc = "loop"
    /\ seed.i > Len(seed.parsed)
    /\ IF seed.added # 0
       THEN /\ meals_table' = meals_table \o session_new
            /\ session_new' = <<>>
       ELSE UNCHANGED <<meals_table, session_new>>
    /\ seed' = [seed EXCEPT !.pc = "returned"]
    /\ seed_runs' = Append(seed_runs, [added |-> seed.added,
                                       count |-> Len(meals_table') + Len(session_new')])
    /\ UNCHANGED seed_frame

NextSeed ==
    \/ SeedStart
    \/ SeedItem
    \/ SeedReturn

SpecSeed == InitSeed /\ [][NextSeed]_vars

\* The rows seeding has inserted, committed or not.
SeededRows == {k \in 1..Len(VisibleMeals) : VisibleMeals[k].by = "seed"}

\* C21: seed_meals_from_csv is idempotent. Every run after the first on the same
\* CSV with the same session returns 0 added meals and leaves the number of
\* meals what the run before left; and at any time no two rows inserted by
\* seeding have the same name.
C21_SeedIdempotent ==
    /\ \A r \in 2..Len(seed_runs) :
           /\ seed_runs[r].added = 0
           /\ seed_runs[r].count = seed_runs[r - 1].count
    /\ \A k1, k2 \in SeededRows :
           k1 # k2 => VisibleMeals[k1].name # VisibleMeals[k2].name

\* Three runs are over on a CSV whose parsed rows repeat a name: the first run
\* inserted two meals or more and skipped a row, the later runs found them all.
C21_Witness ==
    /\ Len(seed_runs) = MaxSeedRuns
    /\ seed_runs[1].added >= 2
    /\ Len(parse_meals_csv(csv_file)) > seed_runs[1].added
    /\ meals_table[1].by = "seed"
    /\ seed.pc = "returned"

-----------------------------------------------------------------------------
(* The endpoints create_user_with_plan and create_user_with_weekly_plan.     *)

\* The payloads of the endpoints: UserCreateRequest, validated.
UserPayloads ==
    [age : {30}, height : {175}, weight : {75}, gender : {s_male},
     activity_level : {"sedentary"}, health_goal : {"weight_loss", "maintain"},
     dietary_preference : {s_balanced, s_keto}, use_csv : BOOLEAN]

\* The fixture CSV the endpoint reads with use_csv: without rows, with one row
\* without a name, with a meal of every type, with one lunch.
EndpointCsvFiles ==
    { <<>>,
      << <<>> >>,
      << <<"O","a","t","m","e","a","l">>, <<"W","r","a","p">>, <<"S","t","e","w">>, <<"N","u","t","s">> >>,
      << <<"W","r","a","p">> >> }

\* The tables of meals the endpoint finds: empty, one lunch, a meal of every main
\* type, two breakfasts and a meal of every other type.
EndpointTables ==
    { <<>>,
      <<MealRow(1, <<"W","r","a","p">>, "lunch", "init_db")>>,
      <<MealRow(1, <<"O","a","t","m","e","a","l">>, "breakfast", "init_db"), MealRow(2, <<"W","r","a","p">>, "lunch", "init_db"),
        MealRow(3, <<"S","t","e","w">>, "dinner", "init_db")>>,
      <<MealRow(1, <<"O","a","t","m","e","a","l">>, "breakfast", "init_db"), MealRow(2, <<"Y","o","g","u","r","t">>, "breakfast", "init_db"),
        MealRow(3, <<"W","r","a","p">>, "lunch", "init_db"), MealRow(4, <<"S","t","e","w">>, "dinner", "init_db"),
        MealRow(5, <<"N","u","t","s">>, "snack", "init_db")>> }

\* The row of table users the endpoint builds from the payload and the calculators.
UserRow(payload) ==
    LET bmr == calculate_bmr(payload.age, payload.height, payload.weight, payload.gender)
        tdee == calculate_tdee(bmr, payload.activity_level)
        target_calories == calculate_target_calories(tdee, payload.health_goal)
        target_macros == calculate_macros(target_calories, payload.dietary_preference)
    IN  [id |-> NoId, age |-> payload.age, height |-> payload.height,
         weight |-> payload.weight, gender |-> payload.gender,
         activity_level |-> payload.activity_level,
         dietary_preference |-> payload.dietary_preference,
         health_goal |-> payload.health_goal,
         target_calories |-> target_calories, target_protein |-> target_macros.protein,
         target_carbs |-> target_macros.carbs, target_fat |-> target_macros.fat]

\* The users that can be there before the call.
UsersBefore == {<<>>, <<[UserRow(CHOOSE p \in UserPayloads : TRUE) EXCEPT !.id = 1]>>}

\* save(session, obj) on the table of obj: session.add(obj); session.commit();
\* session.refresh(obj). The commit makes the row durable and gives it its id.
save(rows, obj) == Append(rows, [obj EXCEPT !.id = Len(rows) + 1])

\* The MealPlan rows a call saves: create_user_with_plan the daily plan and the
\* seven days of the week, create_user_with_weekly_plan the seven days.
PlanRows(name) == IF name = "create_user_with_plan" THEN 1 + Days ELSE Days

\* No meal of all_meals has the type: the plan has no entry for the slot (C8).
NoMealOfType(meals, mtype) == \A k \in 1..Len(meals) : meals[k].meal_type # mtype

\* The ids a plan can hold for a slot: the id of a meal of the type, every entry
\* of a plan being one of all_meals of its meal type (C9); None when there is no
\* meal of the type, and for a meal read from the CSV, which has no id.
SlotIds(meals, mtype) ==
    IF NoMealOfType(meals, mtype) THEN {NoId}
    ELSE {meals[k].id : k \in {j \in 1..Len(meals) : meals[j].meal_type = mtype}}

InitCreateUser ==
    /\ mode = "create_user"
    /\ EngineIdle
    /\ csv_file \in EndpointCsvFiles
    /\ meals_table \in EndpointTables
    /\ users_table \in UsersBefore
    /\ meal_plans_table = <<>>
    /\ session_new = <<>>
    /\ seed = NoSeed
    /\ seed_runs = <<>>
    /\ endpoint \in [name : {"create_user_with_plan", "create_user_with_weekly_plan"},
                     pc : {"start"}, payload : UserPayloads, user : {NoPayload},
                     all_meals : {<<>>}, users_before : {Len(users_table)}]

endpoint_frame == <<mode, all_meals, user_profile, today, request, pc, plan_state,
                    diet_label, candidate_meals, recommended_meals, calc_args, calc_pc,
                    calc_out, call, suspended, csv_file, meals_table, session_new,
                    seed, seed_runs>>

\* The calculators, user = models.User(...) and user = save(db, user).
CreateUserSaveUser ==
    /\ mode = "create_user"
    /\ endpoint.pc = "start"
    /\ users_table' = save(users_table, UserRow(endpoint.payload))
    /\ endpoint' = [endpoint EXCEPT !.pc = "meals",
                                    !.user = users_table'[Len(users_table')]]
    /\ UNCHANGED <<endpoint_frame, meal_plans_table, error, response>>

\* all_meals from the CSV (create_user_with_plan with use_csv) or from the table,
\* then "if not all_meals: raise InsufficientDataError(...)".
CreateUserLoadMeals ==
    /\ mode = "create_user"
    /\ endpoint.pc = "meals"
    /\ LET csv_rows == parse_meals_csv(csv_file)
           from_csv == [k \in 1..Len(csv_rows) |->
                            MealRow(NoId, csv_rows[k].name, csv_rows[k].meal_type, "csv")]
           meals == IF endpoint.name = "create_user_with_plan" /\ endpoint.payload.use_csv
                    THEN from_csv
                    ELSE meals_table
       IN  IF meals = <<>>
           THEN /\ endpoint' = [endpoint EXCEPT !.pc = "raised"]
                /\ error' = <<[type |-> "InsufficientDataError", status_code |-> 400]>>
           ELSE /\ endpoint' = [endpoint EXCEPT !.pc = "plans", !.all_meals = meals]
                /\ error' = error
    /\ UNCHANGED <<endpoint_frame, users_table, meal_plans_table, response>>

\* One MealPlan row built from a generated plan and saved. Subscripting the
\* breakfast, lunch or dinner entry raises when the plan has none.
CreateUserSavePlan ==
    /\ mode = "create_user"
    /\ endpoint.pc = "plans"
    /\ Len(meal_plans_table) < PlanRows(endpoint.name)
    /\ IF \E t \in {"breakfast", "lunch", "dinner"} : NoMealOfType(endpoint.all_meals, t)
       THEN /\ endpoint' = [endpoint EXCEPT !.pc = "raised"]
            /\ error' = <<[type |-> "Exception", status_code |-> 500]>>
            /\ UNCHANGED meal_plans_table
       ELSE /\ \E b \in SlotIds(endpoint.all_meals, "breakfast"),
                 l \in SlotIds(endpoint.all_meals, "lunch"),
                 d \in SlotIds(endpoint.all_meals, "dinner"),
                 sn \in SlotIds(endpoint.all_meals, "snack") :
                   meal_plans_table' = save(meal_plans_table,
                       [id |-> NoId, user_id |-> endpoint.user.id,
                        breakfast_id |-> b, lunch_id |-> l, dinner_id |-> d,
                        snack_id |-> sn])
            /\ UNCHANGED <<endpoint, error>>
    /\ UNCHANGED <<endpoint_frame, users_table, response>>

\* The response, once every row is saved.
CreateUserReturn ==
    /\ mode = "create_user"
    /\ endpoint.pc = "plans"
    /\ Len(meal_plans_table) = PlanRows(endpoint.name)
    /\ endpoint' = [endpoint EXCEPT !.pc = "done"]
    /\ response' = <<[user |-> endpoint.user, plans |-> Len(meal_plans_table)]>>
    /\ UNCHANGED <<endpoint_frame, users_table, meal_plans_table, error>>

NextCreateUser ==
    \/ CreateUserSaveUser
    \/ CreateUserLoadMeals
    \/ CreateUserSavePlan
    \/ CreateUserReturn

SpecCreateUser == InitCreateUser /\ [][NextCreateUser]_vars

\* The endpoint has raised InsufficientDataError.
RaisedInsufficientData ==
    /\ endpoint.pc = "raised"
    /\ error # <<>>
    /\ error[1].type = "InsufficientDataError"

\* C29: when create_user_with_plan or create_user_with_weekly_plan raises
\* InsufficientDataError because no meals are available, the call has committed
\* no row: table users and table meal_plans hold what they held before the call.
C29_NothingPersistedOnNoMeals ==
    RaisedInsufficientData =>
        /\ Len(users_table) = endpoint.users_before
        /\ meal_plans_table = <<>>

\* What the endpoints do: the error leaves no MealPlan row, and exactly one new
\* User row, the one of the call.
UserRowCommittedOnNoMeals ==
    RaisedInsufficientData =>
        /\ meal_plans_table = <<>>
        /\ Len(users_table) = endpoint.users_before + 1
        /\ users_table[Len(users_table)] = endpoint.user

====
